---- MODULE Spec2Model ----
(***************************************************************************)
(* doc-agents: the task queue (internal/queue), the document pipeline      *)
(* (gateway upload, parser worker, analysis worker) and the store rows the *)
(* pipeline writes.  Time is counted in whole seconds and kept relative to  *)
(* the present instant: now is 0, a NotBefore of n > 0 lies n seconds      *)
(* ahead, and every instant that is not in the future is kept as 0 (the    *)
(* code only asks whether NotBefore is after time.Now()).                  *)
(***************************************************************************)
EXTENDS Integers, Sequences, FiniteSets, Bags, TLC

(* ---------------------------- bounds ----------------------------------- *)
\* tasks a producer hands to Queue.Enqueue in QueueSpec
MaxTasks == 1
\* largest explicit Task.MaxAttempts a producer sets in QueueSpec
MaxAttemptsBound == 2
\* competing workers subscribed per task type
NumWorkers == 1
\* outages of a service the program calls, and cancelled requests, in one run
MaxFaults == 2
\* largest `attempts` a caller passes to EnqueueWithRetry in EnqueueSpec
MaxEnqueueAttempts == 3
\* longest list of document ids in a query request
MaxDocIDs == 2
\* longest text, in characters, handed to ChunkText in ChunkSpec
MaxChars == 7
\* largest MaxTokens option handed to ChunkText in ChunkSpec
MaxWindow == 3
\* largest attempt number handed to ExponentialBackoff in BackoffSpec
MaxBackoffAttempt == 4
\* most search results, and most answer tokens with a log-probability
MaxResults == 2
MaxLogprobs == 2

(* ------------------------ program constants ---------------------------- *)
\* retryTask: "if task.MaxAttempts == 0 { task.MaxAttempts = 5 }"
DefaultMaxAttempts == 5
\* retryTask: retry.ExponentialBackoff(task.Attempts, time.Second)
Second == 1
\* uploadHandler / handleParse: EnqueueWithRetry(ctx, q, task, 3, ...)
EnqueueAttempts == 3
\* handleParse: chunker.Options{MaxTokens: 400, Overlap: 80}
ParseMaxTokens == 400
ParseOverlap == 80
\* ChunkText: "if opts.MaxTokens <= 0 { opts.MaxTokens = 400 }"
ChunkDefaultMaxTokens == 400
\* queryRequest: validate:"required,min=3,max=500"
MinQuestionLen == 3
MaxQuestionLen == 500
\* queryRequest: validate:"omitempty,min=1,max=20"
MinTopK == 1
MaxTopK == 20
\* queryHandler: "if req.TopK == 0 { req.TopK = 5 }"
DefaultTopK == 5
\* uuid.Nil and the zero time.Time
NilID == 0
ZeroTime == 0
\* time.Now()
now == 0

TaskTypeParse == "parse"
TaskTypeAnalyze == "analyze"
TaskTypes == {TaskTypeParse, TaskTypeAnalyze}

StatusProcessing == "processing"
StatusReady == "ready"
StatusFailed == "failed"
\* no row in table documents
NoDocument == "none"

\* token counts of the uploaded texts: no chunk, two chunks
ContentTokens == {0, 500}

\* the upload requests followed, named by the document id CreateDocument gives
\* them: every store call and every task payload is keyed by one document id
Requests == {1}
Workers == TaskTypes \X (1..NumWorkers)
\* the workers that run handleParse, and those that run handleAnalyze
ParseWorkers == {w \in Workers : w[1] = TaskTypeParse}
AnalyzeWorkers == {w \in Workers : w[1] = TaskTypeAnalyze}
\* the subscribers of the queue groups "workers-<type>": the workers above, and
\* a second one of each type where a group with several members is followed
Pool == TaskTypes \X (1..(IF NumWorkers < 2 THEN 2 ELSE NumWorkers))

VARIABLES
    nextId,      \* next unused task uuid
    topic,       \* bag of published, undelivered messages (subjects tasks.<type>)
    wk,          \* per worker: the delivery its subscription callback is in
    hist,        \* per task id: MaxAttempts as published, handler calls, fate
    up,          \* per upload request: position in uploadHandler
    status,      \* table documents: status column
    chunks,      \* table chunks: rows [id, document_id, ord, token_count]
    nextChunk,   \* next unused chunk uuid
    summaries,   \* table summaries: document ids with a row
    embeddings,  \* table embeddings: chunk ids with a row
    produced,    \* tasks handed to Enqueue by the producer of QueueSpec
    down,        \* the services that are failing at present
    faults,      \* outages and cancellations so far
    ewr,         \* a caller of EnqueueWithRetry: its position in the loop
    backend,     \* query service: the Cache implementation BuildQuery chose
    redis,       \* the Redis keys "query:<key>" and their values
    everSet,     \* the keys a SetQueryResult call has returned nil for
    qr,          \* per query request: position in queryHandler
    api,         \* per client of the Cache interface: its call in progress
    kc,          \* the cache keys computed in KeySpec, with their inputs
    ck,          \* a call of ChunkText: its options, loop variables and chunks
    pf,          \* a call of one of the other pure functions, with its result
    wl           \* per worker: the call of Worker that registered it

vars == <<nextId, topic, wk, hist, up, status, chunks, nextChunk,
          summaries, embeddings, produced, down, faults, ewr, backend, redis,
          everSet, qr, api, kc, ck, pf, wl>>
queueVars == <<nextId, topic, hist>>
storeVars == <<status, chunks, nextChunk, summaries, embeddings>>

envVars == <<down, faults>>
callerVars == <<ewr>>
queryVars == <<backend, redis, everSet, qr, api, kc>>
pureVars == <<ck, pf>>

\* the services whose calls can return an error: the Postgres store, the NATS
\* connection, the generation provider and the embedding provider
Services == {"store", "queue", "llm", "embedder"}
\* a call to service s succeeds while s is not failing
Up(s) == s \notin down

(* ------------------------------ tasks ---------------------------------- *)
NoPayload == [document_id |-> 0, content |-> 0, chunk_ids |-> {}]

Task(id, type, payload, attempts, maxAttempts, notBefore) ==
    [ID |-> id, Type |-> type, Payload |-> payload, Attempts |-> attempts,
     MaxAttempts |-> maxAttempts, NotBefore |-> notBefore]

NoTask == Task(NilID, "", NoPayload, 0, 0, ZeroTime)

RECURSIVE Pow2(_)
Pow2(n) == IF n <= 0 THEN 1 ELSE 2 * Pow2(n - 1)

ExponentialBackoffShifted(attempt, base) == base * Pow2(attempt - 1)
\* retry.ExponentialBackoff: base * (1 << attempt)
ExponentialBackoff(attempt, base) == base * Pow2(attempt)

(* ------------------------- natsQueue.Enqueue --------------------------- *)
WithIDAlwaysNew(task) == [task EXCEPT !.ID = nextId]
\* The task as Enqueue publishes it: a nil id is replaced by a fresh uuid.
WithID(task) == IF task.ID = NilID THEN [task EXCEPT !.ID = nextId] ELSE task

EnqueueIgnoringPublishError(task, pubOK) ==
    IF task.Type = "" THEN [err |-> TRUE, sent |-> {}]
    ELSE [err |-> FALSE, sent |-> {WithID(task)}]
\* Enqueue(task): err is the returned error, sent the messages published.
\* pubOK is the outcome of nc.Publish.
Enqueue(task, pubOK) ==
    IF task.Type = "" THEN [err |-> TRUE, sent |-> {}]
    ELSE IF pubOK THEN [err |-> FALSE, sent |-> {WithID(task)}]
    ELSE [err |-> TRUE, sent |-> {}]

\* bookkeeping for a task first published: its type, document and MaxAttempts
\* as published, the handler calls made for it, and what became of it
NewHist(t) == [Type |-> t.Type, Document |-> t.Payload.document_id,
               MaxAttempts |-> t.MaxAttempts, calls |-> 0, fate |-> "live"]

\* The effect of one Enqueue call on the queue and on the bookkeeping.
EnqueueEffect(task, pubOK) ==
    LET r == Enqueue(task, pubOK)
        fresh == {t \in r.sent : t.ID \notin DOMAIN hist}
    IN  /\ topic' = topic (+) SetToBag(r.sent)
        /\ nextId' = IF r.sent # {} /\ task.ID = NilID THEN nextId + 1 ELSE nextId
        /\ hist' = IF fresh = {} THEN hist
                   ELSE LET t == CHOOSE x \in fresh : TRUE
                        IN  hist @@ (t.ID :> NewHist(t))

(* ----------------------- EnqueueWithRetry ------------------------------ *)
EnqueueTriesNoFloor(attempts) == attempts
\* "if attempts <= 0 { attempts = 1 }"
EnqueueTries(attempts) == IF attempts <= 0 THEN 1 ELSE attempts

AfterEnqueueErrOnLast(attempt, attempts, err) ==
    IF attempt = EnqueueTries(attempts) - 1 THEN "err"
    ELSE IF ~err THEN "ok" ELSE "wait"
\* Where the loop goes after the Enqueue call of iteration `attempt`.
AfterEnqueue(attempt, attempts, err) ==
    IF ~err THEN "ok"
    ELSE IF attempt = EnqueueTries(attempts) - 1 THEN "err"
    ELSE "wait"

(* ------------------- natsQueue.handleMessage / retryTask --------------- *)
NotYetDueNever(task, t) == FALSE
\* handleMessage: task.NotBefore.After(time.Now())
NotYetDue(task, t) == task.NotBefore > t

DefaultedMaxAttemptsThree(m) == IF m = 0 THEN 3 ELSE m
\* retryTask: the MaxAttempts default
DefaultedMaxAttempts(m) == IF m = 0 THEN DefaultMaxAttempts ELSE m

RetryAllowedInclusive(task) == task.Attempts <= task.MaxAttempts
\* retryTask: "if task.Attempts < task.MaxAttempts"
RetryAllowed(task) == task.Attempts < task.MaxAttempts

\* retryTask up to the Enqueue call: the task after "Attempts++" and the default.
Bumped(task) ==
    [task EXCEPT !.Attempts = @ + 1, !.MaxAttempts = DefaultedMaxAttempts(@)]

RetryCopyKeepAttempts(task, t) ==
    [task EXCEPT !.MaxAttempts = DefaultedMaxAttempts(@),
                 !.NotBefore = t + ExponentialBackoff(task.Attempts + 1, Second)]
\* retryTask: the copy handed to Enqueue when a retry is allowed.
RetryCopy(task, t) ==
    [Bumped(task) EXCEPT !.NotBefore = t + ExponentialBackoff(Bumped(task).Attempts, Second)]

\* a worker between deliveries; in a delivery, log lists the store writes the
\* handler run has made so far
IdleWorker == [pc |-> "idle", task |-> NoTask, attempt |-> 0, out |-> NoTask,
               listed |-> {}, log |-> <<>>]

Held(w) == IF wk[w].pc = "idle" THEN {} ELSE {wk[w].task}
\* every copy of a task that is in the system: published or held by a worker
InFlight == BagToSet(topic) \cup UNION {Held(w) : w \in Pool}

(* NATS hands a message of subject tasks.<type> to one member of the queue   *)
(* group workers-<type>; the callback of a subscription runs one message at  *)
(* a time.  handleMessage then compares NotBefore with the clock.            *)
\* a call of Worker(ctx, taskType, handler) once QueueSubscribe has returned nil:
\* blocked in "<-ctx.Done()", its subscription in the group of its type
NewWorker == [pc |-> "waiting", cancelled |-> FALSE, err |-> FALSE]
\* "if err != nil { return err }" after QueueSubscribe
FailedWorker == [pc |-> "returned", cancelled |-> FALSE, err |-> TRUE]
\* Worker: "sub, err := q.nc.QueueSubscribe(subject, group, ...)"
QueueSubscribe(ok) == IF ok THEN NewWorker ELSE FailedWorker
\* the subscription exists from QueueSubscribe to sub.Unsubscribe()
Subscribed(self) == self.pc = "waiting"

UnblockedAlways(self) == TRUE
\* Worker: "<-ctx.Done()"
Unblocked(self) == self.cancelled

\* Worker is called (again, once an earlier call has returned)
WorkerStart(w) ==
    /\ wl[w].pc = "returned"
    /\ wl' = [wl EXCEPT ![w] = QueueSubscribe(Up("queue"))]
    /\ UNCHANGED <<queueVars, wk, up, storeVars, produced, callerVars, queryVars,
                   pureVars, envVars>>

\* the context handed to Worker is cancelled
CancelWorker(w) ==
    /\ wl[w].pc = "waiting"
    /\ ~wl[w].cancelled
    /\ wl' = [wl EXCEPT ![w].cancelled = TRUE]
    /\ UNCHANGED <<queueVars, wk, up, storeVars, produced, callerVars, queryVars,
                   pureVars, envVars>>

\* Worker: "<-ctx.Done(); return sub.Unsubscribe()"
WorkerReturns(w) ==
    /\ wl[w].pc = "waiting"
    /\ Unblocked(wl[w])
    /\ wl' = [wl EXCEPT ![w] = [@ EXCEPT !.pc = "returned", !.err = ~Up("queue")]]
    /\ UNCHANGED <<queueVars, wk, up, storeVars, produced, callerVars, queryVars,
                   pureVars, envVars>>

MatchesParseOnly(m, w) == m.Type = TaskTypeParse /\ w[1] = TaskTypeParse
\* the subject "tasks.<type>" a worker of that type has subscribed to
Matches(m, w) == m.Type = w[1]

TakenByEveryMember(b, m) == b
\* a message of a subject goes to one member of the queue group
Taken(b, m) == b (-) SetToBag({m})

Deliver(w) ==
    /\ Subscribed(wl[w])
    /\ wk[w].pc = "idle"
    /\ \E m \in BagToSet(topic) :
        /\ Matches(m, w)
        /\ topic' = Taken(topic, m)
        /\ wk' = [wk EXCEPT ![w] = [IdleWorker EXCEPT
                    !.pc = IF NotYetDue(m, now) THEN "sleep" ELSE "handler",
                    !.task = m]]
    /\ UNCHANGED <<nextId, hist, up, storeVars, produced, callerVars, queryVars, pureVars, envVars, wl>>

\* time.Sleep(time.Until(task.NotBefore)) returns
Wake(w) ==
    /\ wk[w].pc = "sleep"
    /\ now >= wk[w].task.NotBefore
    /\ wk' = [wk EXCEPT ![w].pc = "handler"]
    /\ UNCHANGED <<queueVars, up, storeVars, produced, callerVars, queryVars, pureVars, envVars, wl>>

\* bookkeeping of a handler call and of a handler's successful return
Called(h, id) == [h EXCEPT ![id].calls = @ + 1]
Fate(h, id, f) == [h EXCEPT ![id].fate = f]

AfterHandlerAlwaysRetry(err) == "retry"
\* handleMessage: "if err := handler(ctx, task); err != nil { q.retryTask(...) }"
AfterHandler(err) == IF err THEN "retry" ELSE "idle"

\* the worker once its handler has returned
Returned(self, err) ==
    IF AfterHandler(err) = "retry" THEN [self EXCEPT !.pc = "retry"] ELSE IdleWorker
\* bookkeeping of a handler's return
Outcome(h, id, err) == IF err THEN h ELSE Fate(h, id, "done")

\* retryTask(ctx, task, handlerErr)
RetryTask(w) ==
    /\ wk[w].pc = "retry"
    /\ LET task == wk[w].task
           b == Bumped(task)
       IN  IF RetryAllowed(b)
           THEN LET r == Enqueue(RetryCopy(task, now), Up("queue"))
                IN  /\ topic' = topic (+) SetToBag(r.sent)
                    /\ hist' = IF r.err THEN Fate(hist, task.ID, "lost") ELSE hist
           ELSE /\ topic' = topic
                /\ hist' = Fate(hist, task.ID, "dead")
    /\ wk' = [wk EXCEPT ![w] = IdleWorker]
    /\ UNCHANGED <<nextId, up, storeVars, produced, callerVars, queryVars, pureVars, envVars, wl>>

\* The delays after which a task in the system becomes due.
Deadlines == {t.NotBefore : t \in {x \in InFlight : x.NotBefore > now}}

\* the task as seen d seconds later
Later(task, d) == [task EXCEPT !.NotBefore = IF @ > d THEN @ - d ELSE now]

\* Time moves on to the next instant at which some task becomes due.
Tick ==
    /\ Deadlines # {}
    /\ LET d == CHOOSE x \in Deadlines : \A e \in Deadlines : x <= e
       IN  /\ topic' = BagOfAll(LAMBDA t : Later(t, d), topic)
           /\ wk' = [w \in Pool |-> [wk[w] EXCEPT !.task = Later(@, d),
                                                      !.out = Later(@, d)]]
    /\ UNCHANGED <<nextId, hist, up, storeVars, produced, callerVars, queryVars, pureVars, envVars, wl>>

(* ----------------- the queue alone, with any handler ------------------- *)
\* A producer calls Enqueue with a task of its choice.
Produce ==
    /\ produced < MaxTasks
    /\ \E type \in TaskTypes \cup {""}, m \in 0..MaxAttemptsBound,
          nb \in {ZeroTime, now, now + Second} :
          EnqueueEffect(Task(NilID, type, NoPayload, 0, m, nb), Up("queue"))
    /\ produced' = produced + 1
    /\ UNCHANGED <<wk, up, storeVars, envVars, callerVars, queryVars, pureVars, wl>>

\* handler(ctx, task) is called and returns nil or an error
HandlerReturns(w) ==
    /\ wk[w].pc = "handler"
    /\ \E ok \in BOOLEAN :
        /\ wk' = [wk EXCEPT ![w] = Returned(wk[w], ~ok)]
        /\ hist' = Outcome(Called(hist, wk[w].task.ID), wk[w].task.ID, ~ok)
    /\ UNCHANGED <<nextId, topic, up, storeVars, produced, callerVars, queryVars, pureVars, envVars, wl>>

\* a service starts to fail, and recovers
Outage(s) ==
    /\ Up(s)
    /\ faults < MaxFaults
    /\ down' = down \cup {s}
    /\ faults' = faults + 1
    /\ UNCHANGED <<queueVars, wk, up, storeVars, produced, callerVars, queryVars, pureVars, wl>>

Recover(s) ==
    /\ ~Up(s)
    /\ down' = down \ {s}
    /\ UNCHANGED <<queueVars, wk, up, storeVars, produced, callerVars, queryVars, pureVars, faults, wl>>

(* ------------------------- cache.GenerateCacheKey ---------------------- *)
\* two uuid4 strings, and a string that is no uuid
IdA == "11111111-1111-4111-8111-111111111111"
IdB == "22222222-2222-4222-9222-222222222222"
IdAB == IdA \o "," \o IdB
\* the strings used as document ids, listed in the byte order Go compares
\* strings by
IDOrder == <<IdA, IdAB, IdB>>
Rank(id) == CHOOSE i \in 1..Len(IDOrder) : IDOrder[i] = id
\* "sortedIDs[i] > sortedIDs[j]"
Greater(x, y) == Rank(x) > Rank(y)

Swap(ids, i, j) == [ids EXCEPT ![i] = ids[j], ![j] = ids[i]]
\* the two nested loops over i and j > i that exchange out-of-order pairs
RECURSIVE SortLoop(_, _, _)
SortLoop(ids, i, j) ==
    IF i > Len(ids) THEN ids
    ELSE IF j > Len(ids) THEN SortLoop(ids, i + 1, i + 2)
    ELSE SortLoop(IF Greater(ids[i], ids[j]) THEN Swap(ids, i, j) ELSE ids, i, j + 1)

SortedIDsUnsorted(docIDs) == docIDs
\* sortedIDs: a copy of docIDs, sorted
SortedIDs(docIDs) == SortLoop(docIDs, 1, 2)

\* strings.Join(elems, sep)
RECURSIVE Join(_, _)
Join(elems, sep) ==
    IF elems = <<>> THEN ""
    ELSE IF Len(elems) = 1 THEN elems[1]
    ELSE elems[1] \o sep \o Join(Tail(elems), sep)

CanonicalStringNoTopK(question, docIDs, topK) ==
    "q:" \o question \o "|docs:" \o Join(SortedIDs(docIDs), ",")
\* fmt.Sprintf("q:%s|docs:%s|k:%d", question, strings.Join(sortedIDs, ","), topK)
CanonicalString(question, docIDs, topK) ==
    "q:" \o question \o "|docs:" \o Join(SortedIDs(docIDs), ",") \o "|k:" \o ToString(topK)

\* hex.EncodeToString(sha256.Sum256(data)): the digest is kept symbolic, no two
\* data share one
Sha256Hex(data) == <<"sha256", data>>

\* GenerateCacheKey: the key returned, and the caller's docIDs after the call
\* (the sort works on a copy)
GenerateCacheKey(question, docIDs, topK) ==
    [key |-> Sha256Hex(CanonicalString(question, docIDs, topK)),
     docIDs |-> docIDs]

(* ----------------- queryHandler: decoding and validation --------------- *)
\* the validator's uuid4 rule: of the strings used here, the well-formed ones
UUID4s == {IdA, IdB}
\* httputil.Validator.Struct(&req) on the tags of queryRequest
ValidRequest(req) ==
    /\ Len(req.Question) >= MinQuestionLen /\ Len(req.Question) <= MaxQuestionLen
    /\ Len(req.DocumentIDs) >= 1
    /\ \A i \in 1..Len(req.DocumentIDs) : req.DocumentIDs[i] \in UUID4s
    /\ req.TopK = 0 \/ (req.TopK >= MinTopK /\ req.TopK <= MaxTopK)

\* "if req.TopK == 0 { req.TopK = 5 }"
EffectiveTopK(topK) == IF topK = 0 THEN DefaultTopK ELSE topK

\* the key queryHandler looks up for a request that passed validation
RequestKey(req) ==
    GenerateCacheKey(req.Question, req.DocumentIDs, EffectiveTopK(req.TopK)).key

\* the requests and arguments tried
Questions == {"hi", "why", "why|docs:" \o IdA}
RECURSIVE Lists(_, _)
Lists(S, n) ==
    IF n = 0 THEN {<<>>}
    ELSE Lists(S, n - 1) \cup {Append(l, x) : l \in {m \in Lists(S, n - 1) : Len(m) = n - 1}, x \in S}
DocIDLists == Lists(UUID4s, MaxDocIDs) \cup {<<IdAB>>}
TopKs == {0, 1, DefaultTopK, MaxTopK + 1}
QueryInputs == [Question : Questions, DocumentIDs : DocIDLists, TopK : TopKs]

(* --------------------- GenerateCacheKey on its own --------------------- *)
NoKeyCall == [mode |-> "none"]

\* GenerateCacheKey is called with arguments of the caller's choice
CallGenerateCacheKey(slot) ==
    /\ kc[slot].mode = "none"
    /\ \E in \in QueryInputs :
        kc' = [kc EXCEPT ![slot] =
                 [mode |-> "call", in |-> in,
                  out |-> GenerateCacheKey(in.Question, in.DocumentIDs, in.TopK)]]
    /\ UNCHANGED <<queueVars, wk, up, storeVars, produced, envVars, callerVars,
                   backend, redis, everSet, qr, api, pureVars, wl>>

\* queryHandler receives a request: validation, the top_k default, the key
ReceiveRequest(slot) ==
    /\ kc[slot].mode = "none"
    /\ \E in \in QueryInputs :
        kc' = [kc EXCEPT ![slot] =
                 IF ValidRequest(in)
                 THEN [mode |-> "request", in |-> in, key |-> RequestKey(in)]
                 ELSE [mode |-> "rejected", in |-> in]]
    /\ UNCHANGED <<queueVars, wk, up, storeVars, produced, envVars, callerVars,
                   backend, redis, everSet, qr, api, pureVars, wl>>

(* ------------------------------ the cache ------------------------------ *)
\* json.Marshal(sources) and json.Unmarshal(cached.Sources, &sources): the
\* bytes hold a JSON array, which decodes into a slice; other JSON does not
MarshalSources(sources) == [kind |-> "array", items |-> sources]
UnmarshalSources(bytes) ==
    IF bytes.kind \in {"array", "null"}
    THEN [err |-> FALSE, sources |-> IF bytes.kind = "array" THEN bytes.items ELSE <<>>]
    ELSE [err |-> TRUE, sources |-> <<>>]

\* cache.QueryResult, and the nil *QueryResult
QueryResult(answer, confidence, sourcesJSON) ==
    [Answer |-> answer, Confidence |-> confidence, Sources |-> sourcesJSON]
\* a Sources field left unset: no bytes, which is not JSON
NoBytes == [kind |-> "empty", items |-> <<>>]
NoEntry == [Answer |-> "", Confidence |-> 0, Sources |-> NoBytes]

\* json.Marshal(result) in SetQueryResult, json.Unmarshal(data, &result) in
\* GetQueryResult
MarshalResult(result) == [kind |-> "object", fields |-> result]
UnmarshalResult(data) ==
    IF data.kind = "object" THEN [err |-> FALSE, result |-> data.fields]
    ELSE [err |-> TRUE, result |-> NoEntry]

\* RedisCache.GetQueryResult: ok is the outcome of the GET command
RedisGetQueryResult(store, key, ok) ==
    IF ~ok THEN [entry |-> NoEntry, err |-> TRUE]
    ELSE IF key \notin DOMAIN store THEN [entry |-> NoEntry, err |-> FALSE]
    ELSE LET u == UnmarshalResult(store[key])
         IN  IF u.err THEN [entry |-> NoEntry, err |-> TRUE]
             ELSE [entry |-> u.result, err |-> FALSE]

\* RedisCache.SetQueryResult: ok is the outcome of the SET command
RedisSetQueryResult(store, key, result, ok) ==
    IF ~ok THEN [store |-> store, err |-> TRUE]
    ELSE [store |-> (key :> MarshalResult(result)) @@ store, err |-> FALSE]

NoOpGetQueryResultFails(key) == [entry |-> NoEntry, err |-> TRUE]
\* NoOpCache.GetQueryResult: "return nil, nil"
NoOpGetQueryResult(key) == [entry |-> NoEntry, err |-> FALSE]
\* NoOpCache.SetQueryResult, InvalidateDocument, Close: "return nil"
NoOpSetQueryResult(store, key, result) == [store |-> store, err |-> FALSE]
NoOpInvalidateDocument(docID) == [err |-> FALSE]
NoOpClose == [err |-> FALSE]

\* deps.Cache.GetQueryResult / SetQueryResult on the implementation in use; a
\* closed Redis client fails every command
CacheGet(b, store, key, ok) ==
    IF b = "noop" THEN NoOpGetQueryResult(key)
    ELSE RedisGetQueryResult(store, key, ok /\ b = "redis")
CacheSet(b, store, key, result, ok) ==
    IF b = "noop" THEN NoOpSetQueryResult(store, key, result)
    ELSE RedisSetQueryResult(store, key, result, ok /\ b = "redis")

\* BuildQuery: buildCache, and NewNoOpCache when it fails (NewRedisCache pings)
BuildQuery ==
    /\ backend = "unset"
    /\ backend' = IF Up("cache") THEN "redis" ELSE "noop"
    /\ UNCHANGED <<queueVars, wk, up, storeVars, produced, envVars, callerVars,
                   redis, everSet, qr, api, kc, pureVars, wl>>

\* a key's TTL runs out
Expire ==
    /\ \E key \in DOMAIN redis :
        redis' = [k \in DOMAIN redis \ {key} |-> redis[k]]
    /\ UNCHANGED <<queueVars, wk, up, storeVars, produced, envVars, callerVars,
                   backend, everSet, qr, api, kc, pureVars, wl>>

(* -------------------- clients of the Cache interface ------------------- *)
Clients == {1, 2}
\* the requests whose keys the clients use: one names IdA alone, one both ids
CachedInputs ==
    {[Question |-> "why", DocumentIDs |-> <<IdA>>, TopK |-> 0],
     [Question |-> "why", DocumentIDs |-> <<IdB, IdA>>, TopK |-> 0]}
CacheKeys == {RequestKey(in) : in \in CachedInputs}
\* the document ids of the request a key was made for
DocsOfKey(key) ==
    UNION {{in.DocumentIDs[i] : i \in 1..Len(in.DocumentIDs)} :
              in \in {x \in CachedInputs : RequestKey(x) = key}}

\* the results clients store: one with its sources encoded, one without sources
ClientResults ==
    {QueryResult("answer", 1, MarshalSources(<<[chunk_id |-> "123"]>>)),
     QueryResult("answer", 1, NoBytes)}

NoCall == [op |-> "none", key |-> <<>>, doc |-> "", entry |-> NoEntry, err |-> FALSE,
           before |-> {}]
IdleClient == [pc |-> "idle", doc |-> "", keys |-> {}, before |-> {}, wrote |-> FALSE,
               last |-> NoCall]

\* the clients in InvalidateDocument see that a write went through
NoteWrite(a, c, changed) ==
    [x \in Clients |-> IF x # c /\ a[x].pc = "scanned" /\ changed
                       THEN [a[x] EXCEPT !.wrote = TRUE] ELSE a[x]]

\* client c calls SetQueryResult
ApiSet(c) ==
    /\ backend # "unset"
    /\ api[c].pc = "idle"
    /\ \E key \in CacheKeys, result \in ClientResults :
        LET r == CacheSet(backend, redis, key, result, Up("cache"))
        IN  /\ redis' = r.store
            /\ everSet' = IF r.err THEN everSet ELSE everSet \cup {key}
            /\ api' = [NoteWrite(api, c, redis' # redis) EXCEPT
                         ![c].last = [NoCall EXCEPT !.op = "Set", !.key = key,
                                                    !.err = r.err]]
    /\ UNCHANGED <<queueVars, wk, up, storeVars, produced, envVars, callerVars,
                   backend, qr, kc, pureVars, wl>>

\* client c calls GetQueryResult
ApiGet(c) ==
    /\ backend # "unset"
    /\ api[c].pc = "idle"
    /\ \E key \in CacheKeys :
        LET r == CacheGet(backend, redis, key, Up("cache"))
        IN  api' = [api EXCEPT ![c].last =
                      [NoCall EXCEPT !.op = "Get", !.key = key, !.entry = r.entry,
                                     !.err = r.err]]
    /\ UNCHANGED <<queueVars, wk, up, storeVars, produced, envVars, callerVars,
                   backend, redis, everSet, qr, kc, pureVars, wl>>

\* SCAN 0 MATCH query:* : the keys found
ScanKeys(store) == DOMAIN store
KeysOfDocument(keys, docID) == {k \in keys : docID \in DocsOfKey(k)}
\* InvalidateDocument: the loop queues a DEL for every key found
KeysToDelete(keys, docID) == keys

\* the return of InvalidateDocument
InvalidateReturn(self, err) ==
    [IdleClient EXCEPT !.last = [NoCall EXCEPT !.op = "Invalidate", !.doc = self.doc,
                                    !.err = err, !.before = self.before]]

\* client c calls InvalidateDocument: the SCAN loop, and the returns before Exec
ApiInvalidate(c) ==
    /\ backend # "unset"
    /\ api[c].pc = "idle"
    /\ \E docID \in UUID4s :
        LET self == [IdleClient EXCEPT !.doc = docID,
                        !.before = IF backend = "noop" THEN {} ELSE DOMAIN redis]
        IN  api' = [api EXCEPT ![c] =
                IF backend = "noop"
                THEN InvalidateReturn(self, NoOpInvalidateDocument(docID).err)
                ELSE IF ~(Up("cache") /\ backend = "redis")
                THEN InvalidateReturn(self, TRUE)
                ELSE IF KeysToDelete(ScanKeys(redis), docID) = {}
                THEN InvalidateReturn(self, FALSE)
                ELSE [self EXCEPT !.pc = "scanned",
                                  !.keys = KeysToDelete(ScanKeys(redis), docID)]]
    /\ UNCHANGED <<queueVars, wk, up, storeVars, produced, envVars, callerVars,
                   backend, redis, everSet, qr, kc, pureVars, wl>>

\* InvalidateDocument: pipe.Exec and the return; a failed pipeline may have
\* deleted any of its keys
ApiInvalidateExec(c) ==
    /\ api[c].pc = "scanned"
    /\ \E gone \in SUBSET api[c].keys :
        /\ (Up("cache") /\ backend = "redis") => gone = api[c].keys
        /\ redis' = [k \in DOMAIN redis \ gone |-> redis[k]]
        /\ api' = [api EXCEPT ![c] =
                     InvalidateReturn(api[c], ~(Up("cache") /\ backend = "redis"))]
    /\ UNCHANGED <<queueVars, wk, up, storeVars, produced, envVars, callerVars,
                   backend, everSet, qr, kc, pureVars, wl>>

\* client c calls Close
ApiClose(c) ==
    /\ backend # "unset"
    /\ api[c].pc = "idle"
    /\ backend' = IF backend = "noop" THEN "noop" ELSE "closed"
    /\ api' = [api EXCEPT ![c].last =
                 [NoCall EXCEPT !.op = "Close",
                     !.err = IF backend = "noop" THEN NoOpClose.err
                             ELSE backend = "closed"]]
    /\ UNCHANGED <<queueVars, wk, up, storeVars, produced, envVars, callerVars,
                   redis, everSet, qr, kc, pureVars, wl>>

(* ----------------------- queryHandler (POST /api/query) ----------------- *)
QueryIDs == {1}
QueryServices == {"cache", "embedder", "store", "llm"}
\* the client that writes to the same cache while the query service runs
OtherWriters == {2}

StatusOK == 200
StatusBadRequest == 400
StatusInternalServerError == 500

\* request bodies: JSON that decodes into a queryRequest, or text that does not
NoRequest == [Question |-> "", DocumentIDs |-> <<>>, TopK |-> 0]
Body(req) == [json |-> TRUE, req |-> req]
QueryBodies ==
    {Body([Question |-> "why", DocumentIDs |-> <<IdB, IdA>>, TopK |-> 0]),
     Body([Question |-> "why", DocumentIDs |-> <<IdA, IdB>>, TopK |-> DefaultTopK]),
     Body([Question |-> "hi", DocumentIDs |-> <<IdA>>, TopK |-> 0]),
     [json |-> FALSE, req |-> NoRequest]}

\* what Store.TopK and LLM.Answer may hand back
SearchResults == {<<>>, <<"123">>}
LLMOutputs == {[answer |-> "yes", confidence |-> 1], [answer |-> "no", confidence |-> 0]}
NoOutput == [answer |-> "", confidence |-> 0]

\* buildSources: one source per search result, in order
BuildSources(results) == [i \in 1..Len(results) |-> [chunk_id |-> results[i]]]

NoResponse == [status |-> 0, answer |-> "", sources |-> <<>>, confidence |-> 0,
               cached |-> FALSE]
\* httputil.Fail / httputil.ValidationError
Fail(code) == [NoResponse EXCEPT !.status = code]
CachedResponseUnmarked(entry, sources) ==
    [status |-> StatusOK, answer |-> entry.Answer, sources |-> sources,
     confidence |-> entry.Confidence, cached |-> FALSE]
\* the response written on a cache hit
CachedResponse(entry, sources) ==
    [status |-> StatusOK, answer |-> entry.Answer, sources |-> sources,
     confidence |-> entry.Confidence, cached |-> TRUE]
\* the response written at the end of the normal flow
FreshResponse(out, sources) ==
    [status |-> StatusOK, answer |-> out.answer, sources |-> sources,
     confidence |-> out.confidence, cached |-> FALSE]

\* a call to a collaborator, and whether it returned an error
Call(op, err) == [op |-> op, err |-> err]

\* one run of the handler: where it is, the request body, the cache key, the
\* entry the lookup returned, the search results, the generated answer, the
\* calls made so far and the response written
IdleQuery == [pc |-> "idle", body |-> [json |-> FALSE, req |-> NoRequest],
              key |-> <<>>, found |-> NoEntry, results |-> <<>>, out |-> NoOutput,
              calls |-> <<>>, resp |-> NoResponse]

\* the handler up to the end of the cache check: decode, validate, default
\* top_k, GenerateCacheKey, GetQueryResult, and the response on a hit
QueryStartOf(r, bodies) ==
    /\ backend # "unset"
    /\ qr[r].pc \in {"idle", "done"}
    /\ \E body \in bodies :
        LET self == [IdleQuery EXCEPT !.body = body]
            key == RequestKey(body.req)
            got == CacheGet(backend, redis, key, Up("cache"))
            dec == UnmarshalSources(got.entry.Sources)
            looked == [self EXCEPT !.key = key, !.found = got.entry,
                                   !.calls = <<Call("GetQueryResult", got.err)>>]
        IN  qr' = [qr EXCEPT ![r] =
                IF ~body.json \/ ~ValidRequest(body.req)
                THEN [self EXCEPT !.pc = "done", !.resp = Fail(StatusBadRequest)]
                ELSE IF ~got.err /\ got.entry # NoEntry /\ ~dec.err
                THEN [looked EXCEPT !.pc = "done",
                                    !.resp = CachedResponse(got.entry, dec.sources)]
                ELSE [looked EXCEPT !.pc = "embed"]]
    /\ UNCHANGED <<queueVars, wk, up, storeVars, produced, envVars, callerVars,
                   backend, redis, everSet, api, kc, pureVars, wl>>

\* the handler is called with one of the bodies of QuerySpec
QueryStart(r) == QueryStartOf(r, QueryBodies)

\* a collaborator failed: httputil.Fail(..., 500) and return
QueryFailed(self) ==
    [self EXCEPT !.pc = "done", !.resp = Fail(StatusInternalServerError)]

\* deps.Embedder.Embed(req.Question)
QueryEmbed(r) ==
    /\ qr[r].pc = "embed"
    /\ LET self == [qr[r] EXCEPT !.calls = Append(@, Call("Embed", ~Up("embedder")))]
       IN  qr' = [qr EXCEPT ![r] =
                    IF Up("embedder") THEN [self EXCEPT !.pc = "search"]
                    ELSE QueryFailed(self)]
    /\ UNCHANGED <<queueVars, wk, up, storeVars, produced, envVars, callerVars,
                   backend, redis, everSet, api, kc, pureVars, wl>>

\* deps.Store.TopK(ctx, ids, vec, req.TopK), which returns one of `found`
QuerySearchOf(r, found) ==
    /\ qr[r].pc = "search"
    /\ \E results \in found :
        LET self == [qr[r] EXCEPT !.calls = Append(@, Call("TopK", ~Up("store")))]
        IN  qr' = [qr EXCEPT ![r] =
                     IF Up("store") THEN [self EXCEPT !.pc = "answer", !.results = results]
                     ELSE QueryFailed(self)]
    /\ UNCHANGED <<queueVars, wk, up, storeVars, produced, envVars, callerVars,
                   backend, redis, everSet, api, kc, pureVars, wl>>

\* the search returns any of the results of QuerySpec
QuerySearch(r) == QuerySearchOf(r, SearchResults)

AfterAnswerIgnoreError(self, out, ok) == [self EXCEPT !.pc = "cache", !.out = out]
\* after deps.LLM.Answer: fail the request on an error, else go on
AfterAnswer(self, out, ok) ==
    IF ok THEN [self EXCEPT !.pc = "cache", !.out = out]
    ELSE QueryFailed(self)

\* deps.LLM.Answer(ctx, req.Question, context, contextQuality)
QueryAnswer(r) ==
    /\ qr[r].pc = "answer"
    /\ \E out \in LLMOutputs :
        qr' = [qr EXCEPT ![r] =
                 AfterAnswer([qr[r] EXCEPT !.calls = Append(@, Call("Answer", ~Up("llm")))],
                             IF Up("llm") THEN out ELSE NoOutput, Up("llm"))]
    /\ UNCHANGED <<queueVars, wk, up, storeVars, produced, envVars, callerVars,
                   backend, redis, everSet, api, kc, pureVars, wl>>

AfterCacheWriteFailOnError(self, err, sources) ==
    IF err THEN [self EXCEPT !.pc = "done", !.resp = Fail(StatusInternalServerError)]
    ELSE [self EXCEPT !.pc = "done", !.resp = FreshResponse(self.out, sources)]
\* after deps.Cache.SetQueryResult: the error is logged, the answer is returned
AfterCacheWrite(self, err, sources) ==
    [self EXCEPT !.pc = "done", !.resp = FreshResponse(self.out, sources)]

\* buildSources, json.Marshal(sources), SetQueryResult and the response
QueryCacheWrite(r) ==
    /\ qr[r].pc = "cache"
    /\ LET sources == BuildSources(qr[r].results)
           w == CacheSet(backend, redis, qr[r].key,
                         QueryResult(qr[r].out.answer, qr[r].out.confidence,
                                     MarshalSources(sources)),
                         Up("cache"))
       IN  /\ redis' = w.store
           /\ everSet' = IF w.err THEN everSet ELSE everSet \cup {qr[r].key}
           /\ qr' = [qr EXCEPT ![r] =
                       AfterCacheWrite([qr[r] EXCEPT !.calls =
                                            Append(@, Call("SetQueryResult", w.err))],
                                       w.err, sources)]
           /\ api' = NoteWrite(api, 0, redis' # redis)
    /\ UNCHANGED <<queueVars, wk, up, storeVars, produced, envVars, callerVars,
                   backend, kc, pureVars, wl>>

(* ------------------- chunker.ChunkText, step by step ------------------- *)
\* texts are sequences of characters: the space and one letter
Space == " "
Chars == {Space, "a"}
RECURSIVE Strings(_, _)
Strings(S, n) ==
    IF n = 0 THEN {<<>>}
    ELSE Strings(S, n - 1) \cup {Append(t, c) : t \in Strings(S, n - 1), c \in S}
Texts == Strings(Chars, MaxChars)
MaxTokensTried == (-1)..MaxWindow
OverlapsTried == ((-1)..(MaxWindow + 1)) \cup {ChunkDefaultMaxTokens}

\* strings.Fields: the maximal runs of non-space characters, in order
RECURSIVE FieldsFrom(_, _, _, _)
FieldsFrom(text, i, cur, acc) ==
    IF i > Len(text) THEN (IF cur = <<>> THEN acc ELSE Append(acc, cur))
    ELSE IF text[i] = Space
         THEN FieldsFrom(text, i + 1, <<>>, IF cur = <<>> THEN acc ELSE Append(acc, cur))
         ELSE FieldsFrom(text, i + 1, Append(cur, text[i]), acc)
Fields(text) == FieldsFrom(text, 1, <<>>, <<>>)

\* strings.Join(elems, sep) on sequences of characters
RECURSIVE StringsJoin(_, _)
StringsJoin(elems, sep) ==
    IF elems = <<>> THEN <<>>
    ELSE IF Len(elems) = 1 THEN elems[1]
    ELSE elems[1] \o sep \o StringsJoin(Tail(elems), sep)

\* "if opts.MaxTokens <= 0 { opts.MaxTokens = 400 }"
DefaultedMaxTokens(maxTokens) ==
    IF maxTokens <= 0 THEN ChunkDefaultMaxTokens ELSE maxTokens
\* "if opts.Overlap < 0 { opts.Overlap = 0 }"
DefaultedOverlap(overlap) == IF overlap < 0 THEN 0 ELSE overlap

StrideIgnoreOverlap(maxTokens, overlap) == maxTokens
StrideZeroOnFallback(maxTokens, overlap) ==
    IF maxTokens - overlap <= 0 THEN 0 ELSE maxTokens - overlap
\* "step := opts.MaxTokens - opts.Overlap; if step <= 0 { step = opts.MaxTokens }"
Stride(maxTokens, overlap) ==
    IF maxTokens - overlap <= 0 THEN maxTokens ELSE maxTokens - overlap

\* "end := start + opts.MaxTokens; if end > len(words) { end = len(words) }"
WindowEnd(start, maxTokens, n) ==
    IF start + maxTokens > n THEN n ELSE start + maxTokens

AtEndNever(end, n) == FALSE
\* "if end == len(words) { break }"
AtEnd(end, n) == end = n

NewChunkIndexFromOne(cs, words, start, end) ==
    [Index |-> Len(cs) + 1,
     Text |-> StringsJoin(SubSeq(words, start + 1, end), <<Space>>),
     TokenCount |-> end - start]
\* Chunk{Index: len(chunks), Text: strings.Join(words[start:end], " "),
\*       TokenCount: end - start}
NewChunk(cs, words, start, end) ==
    [Index |-> Len(cs),
     Text |-> StringsJoin(SubSeq(words, start + 1, end), <<Space>>),
     TokenCount |-> end - start]

NoChunkCall == [pc |-> "idle", text |-> <<>>, MaxTokens |-> 0, Overlap |-> 0,
                opts |-> [MaxTokens |-> 0, Overlap |-> 0], words |-> <<>>,
                step |-> 0, start |-> 0, chunks |-> <<>>]

\* ChunkText is called: the defaults, strings.Fields, the return for an empty
\* text, the stride
ChunkCall ==
    /\ ck.pc = "idle"
    /\ \E text \in Texts, maxTokens \in MaxTokensTried, overlap \in OverlapsTried :
        LET mt == DefaultedMaxTokens(maxTokens)
            ov == DefaultedOverlap(overlap)
            words == Fields(text)
            self == [NoChunkCall EXCEPT !.text = text, !.MaxTokens = maxTokens,
                        !.Overlap = overlap,
                        !.opts = [MaxTokens |-> mt, Overlap |-> ov],
                        !.words = words]
        IN  ck' = IF Len(words) = 0 THEN [self EXCEPT !.pc = "done"]
                  ELSE [self EXCEPT !.pc = "loop", !.step = Stride(mt, ov)]
    /\ UNCHANGED <<queueVars, wk, up, storeVars, produced, envVars, callerVars,
                   queryVars, pf, wl>>

\* one pass of "for start := 0; start < len(words); start += step": the loop
\* condition, the body with its break, the increment.  A text of n words has
\* no more than n windows that start at different words, and the model follows
\* the loop no further than one pass beyond that.
ChunkIter ==
    /\ ck.pc = "loop"
    /\ Len(ck.chunks) <= Len(ck.words)
    /\ LET n == Len(ck.words)
           end == WindowEnd(ck.start, ck.opts.MaxTokens, n)
           cs == Append(ck.chunks, NewChunk(ck.chunks, ck.words, ck.start, end))
       IN  ck' = IF ~(ck.start < n) THEN [ck EXCEPT !.pc = "done"]
                 ELSE IF AtEnd(end, n) THEN [ck EXCEPT !.pc = "done", !.chunks = cs]
                 ELSE [ck EXCEPT !.chunks = cs, !.start = ck.start + ck.step]
    /\ UNCHANGED <<queueVars, wk, up, storeVars, produced, envVars, callerVars,
                   queryVars, pf, wl>>

NoPureCall == [fn |-> "none"]

(* ----------- retry.ExponentialBackoff on 64-bit durations -------------- *)
\* time.Duration is an int64 count of nanoseconds: a sequence of DurationBits
\* bits, the sign bit first
DurationBits == 64
\* bit number j (0 is the lowest) of the natural number m < 2^30
BitOf(m, j) == IF j < 0 \/ j > 30 THEN 0 ELSE (m \div Pow2(j)) % 2
\* the duration m * 2^p as an int64, high bits cut off
Dur(m, p) == [i \in 1..DurationBits |-> BitOf(m, (DurationBits - i) - p)]
\* m * 2^p is representable: less than 2^63
Representable(m, p) == \A j \in 0..30 : BitOf(m, j) = 1 => j + p < DurationBits - 1

\* x << n on int64
ShiftLeft(x, n) ==
    [i \in 1..DurationBits |-> IF i + n <= DurationBits THEN x[i + n] ELSE 0]
\* x < y on int64 (two's complement)
Less(x, y) ==
    IF x[1] # y[1] THEN x[1] = 1
    ELSE \E i \in 1..DurationBits :
            /\ x[i] < y[i]
            /\ \A j \in 1..(i - 1) : x[j] = y[j]
\* the int64 as a number, for values below 2^30
ToInt(x) ==
    LET RECURSIVE val(_)
        val(i) == IF i > DurationBits THEN 0
                  ELSE x[i] * Pow2(DurationBits - i) + val(i + 1)
    IN  val(DurationBits - 29)

ExponentialBackoffInt64OneMore(attempt, base) == ShiftLeft(base, attempt + 1)
\* retry.ExponentialBackoff: "return base * (1 << attempt)"; the int64 product
\* with a power of two is the shift, overflowing bits lost
ExponentialBackoffInt64(attempt, base) == ShiftLeft(base, attempt)

\* the attempts tried, and the bases: 1 ns, 3 ns, 100 ms and 1 s, each times a
\* power of two, as long as the base itself is a positive int64
BackoffAttempts == 0..MaxBackoffAttempt
Mantissas == {1, 3, 390625, 1953125}
BackoffBases ==
    {b \in [m : Mantissas, p : 0..(DurationBits - 2)] : Representable(b.m, b.p)}

\* a caller computes the delays of attempts 0, 1, ... for one base
BackoffCall ==
    /\ pf.fn = "none"
    /\ \E b \in BackoffBases :
        pf' = [fn |-> "ExponentialBackoff", m |-> b.m, p |-> b.p,
               delays |-> [n \in BackoffAttempts |->
                              ExponentialBackoffInt64(n, Dur(b.m, b.p))]]
    /\ UNCHANGED <<queueVars, wk, up, storeVars, produced, envVars, callerVars,
                   queryVars, ck, wl>>

(* ----------------- confidence of an answer (query service) ------------- *)
\* float values are modelled as exact fractions <<numerator, denominator>>
Frac(n, d) == <<n, d>>
FracEq(x, y) == x[1] * y[2] = y[1] * x[2]
IsZero(x) == x[1] = 0
Times(x, y) == Frac(x[1] * y[1], x[2] * y[2])
Plus(x, y) == Frac(x[1] * y[2] + y[1] * x[2], x[2] * y[2])
One == Frac(1, 1)
Zero == Frac(0, 1)

RECURSIVE SumOf(_)
SumOf(xs) == IF xs = <<>> THEN Zero ELSE Plus(xs[1], SumOf(Tail(xs)))
MapSeq(xs, Op(_)) == [i \in 1..Len(xs) |-> Op(xs[i])]

\* similarity scores of search results: 1 - cosine distance
Scores == {Frac(-1, 2), Frac(0, 1), Frac(1, 2), Frac(1, 1)}
\* token log-probabilities, and math.Exp of them
LogProbs == {"ln 1", "ln 1/2", "ln 1/4", "-inf"}
Exp(logprob) ==
    CASE logprob = "ln 1" -> Frac(1, 1)
      [] logprob = "ln 1/2" -> Frac(1, 2)
      [] logprob = "ln 1/4" -> Frac(1, 4)
      [] logprob = "-inf" -> Frac(0, 1)

\* calculateAvgSimilarity(results)
CalculateAvgSimilarity(scores) ==
    IF Len(scores) = 0 THEN Zero
    ELSE Times(SumOf(scores), Frac(1, Len(scores)))

\* calculateLLMConfidence(logprobs): logprobs is nil, or holds Content
NilLogprobs == [isNil |-> TRUE, Content |-> <<>>]
CalculateLLMConfidence(logprobs) ==
    IF logprobs.isNil \/ Len(logprobs.Content) = 0 THEN One
    ELSE Times(SumOf(MapSeq(logprobs.Content, Exp)), Frac(1, Len(logprobs.Content)))

CombineAsAverage(contextQuality, llmConfidence) ==
    Times(Plus(contextQuality, llmConfidence), Frac(1, 2))
\* "combinedConfidence := contextQuality * llmConfidence"
Combine(contextQuality, llmConfidence) == Times(contextQuality, llmConfidence)

\* queryHandler computes the context quality of its search results and
\* OpenAIClient.Answer blends it with the confidence of the generation
AnswerConfidence ==
    /\ pf.fn = "none"
    /\ \E scores \in Lists(Scores, MaxResults),
          logprobs \in {NilLogprobs}
                \cup {[isNil |-> FALSE, Content |-> c] : c \in Lists(LogProbs, MaxLogprobs)} :
        LET contextQuality == CalculateAvgSimilarity(scores)
            llmConfidence == CalculateLLMConfidence(logprobs)
        IN  pf' = [fn |-> "Answer", scores |-> scores, logprobs |-> logprobs,
                   contextQuality |-> contextQuality, llmConfidence |-> llmConfidence,
                   confidence |-> Combine(contextQuality, llmConfidence)]
    /\ UNCHANGED <<queueVars, wk, up, storeVars, produced, envVars, callerVars,
                   queryVars, ck, wl>>

(* ------------------------ truncate (query service) --------------------- *)
\* buildSources: "Preview: truncate(res.Chunk.Text, 150)"
PreviewLen == 150
Ellipsis == <<".", ".", ".">>

\* a word of n letters
Word(n) == [i \in 1..n |-> "a"]

\* strings.LastIndex(s, " "): the 0-based index of the last space, or -1
LastIndex(str) ==
    LET at == {i \in 1..Len(str) : str[i] = Space}
    IN  IF at = {} THEN -1
        ELSE (CHOOSE i \in at : \A j \in at : j <= i) - 1

\* truncate(s, maxLen); s[:k] is SubSeq(s, 1, k)
Truncate(str, maxLen) ==
    IF Len(str) <= maxLen THEN str
    ELSE LET idx == LastIndex(SubSeq(str, 1, maxLen))
         IN  IF idx > 0 THEN SubSeq(str, 1, idx) \o Ellipsis
             ELSE SubSeq(str, 1, maxLen) \o Ellipsis

\* chunk texts handed to truncate: short ones, and ones that reach the 150th
\* character in every way a text of MaxChars characters can: inside one long
\* word, and after a space further to the left
ChunkTexts ==
    Texts
        \cup {Word(PreviewLen - 4) \o t : t \in Texts}
        \cup {Word(100) \o <<Space>> \o Word(PreviewLen - 105) \o t : t \in Texts}

\* buildSources calls truncate on the text of a search result
TruncateCall ==
    /\ pf.fn = "none"
    /\ \E str \in ChunkTexts :
        pf' = [fn |-> "truncate", s |-> str, maxLen |-> PreviewLen,
               out |-> Truncate(str, PreviewLen)]
    /\ UNCHANGED <<queueVars, wk, up, storeVars, produced, envVars, callerVars,
                   queryVars, ck, wl>>

(* ------------- a caller of EnqueueWithRetry(ctx, q, task, attempts, base) ------------- *)
\* error values: nil, the error returned by the k-th q.Enqueue call, ctx.Err()
NilError == [op |-> "nil", call |-> 0]
EnqueueError(k) == [op |-> "Enqueue", call |-> k]
CtxErr == [op |-> "ctx.Err", call |-> 0]
NotReturned == [op |-> "running", call |-> 0]

\* the caller before its call: results lists what each q.Enqueue call returned,
\* waits the durations of the timers armed, ret what EnqueueWithRetry returned
NewCaller == [pc |-> "new", task |-> NoTask, attempts |-> 0, base |-> 0,
              attempt |-> 0, results |-> <<>>, waits |-> <<>>,
              ret |-> NotReturned, cancelled |-> FALSE]

\* ids a caller sets in its task: none, or a uuid of its own (never one that
\* uuid.New() gives)
CallerIDs == {NilID, 100}
\* the base durations callers pass, in milliseconds
Bases == {1, 200}

\* "for attempt := 0; attempt < attempts; attempt++": the loop condition, with
\* attempts as floored on entry
LoopContinues(attempt, attempts) == attempt < EnqueueTries(attempts)

\* the caller at the top of the loop: the next iteration, or "return nil"
AtLoopTop(c) ==
    IF LoopContinues(c.attempt, c.attempts) THEN [c EXCEPT !.pc = "call"]
    ELSE [c EXCEPT !.pc = "done", !.ret = NilError]

\* EnqueueWithRetry is called
EwrStart ==
    /\ ewr.pc = "new"
    /\ \E type \in TaskTypes \cup {""}, id \in CallerIDs,
          n \in -1..MaxEnqueueAttempts, base \in Bases :
          ewr' = AtLoopTop([ewr EXCEPT
                    !.task = Task(id, type, NoPayload, 0, 0, ZeroTime),
                    !.attempts = n, !.base = base])
    /\ UNCHANGED <<queueVars, wk, up, storeVars, produced, envVars, queryVars, pureVars, wl>>

\* one iteration up to the select: q.Enqueue(ctx, task) and the two returns
EwrCall ==
    /\ ewr.pc = "call"
    /\ EnqueueEffect(ewr.task, Up("queue"))
    /\ LET r == Enqueue(ewr.task, Up("queue"))
           k == Len(ewr.results) + 1
           e == IF r.err THEN EnqueueError(k) ELSE NilError
           after == AfterEnqueue(ewr.attempt, ewr.attempts, r.err)
           c == [ewr EXCEPT !.results = Append(@, e)]
       IN  ewr' = CASE after = "ok" -> [c EXCEPT !.pc = "done", !.ret = NilError]
                    [] after = "err" -> [c EXCEPT !.pc = "done", !.ret = e]
                    [] OTHER -> [c EXCEPT !.pc = "wait",
                                   !.waits = Append(@, ExponentialBackoff(c.attempt, c.base))]
    /\ UNCHANGED <<wk, up, storeVars, produced, envVars, queryVars, pureVars, wl>>

TimerMayFireAlways(cancelled) == TRUE
\* select: the timer's case is taken only if ctx.Done() has not become ready
\* first; a context cancelled before the timer fires ends the wait
TimerMayFire(cancelled) == ~cancelled

\* select: "case <-time.After(retry.ExponentialBackoff(attempt, base))"
EwrTimer ==
    /\ ewr.pc = "wait"
    /\ TimerMayFire(ewr.cancelled)
    /\ ewr' = AtLoopTop([ewr EXCEPT !.attempt = @ + 1])
    /\ UNCHANGED <<queueVars, wk, up, storeVars, produced, envVars, queryVars, pureVars, wl>>

\* select: "case <-ctx.Done(): return ctx.Err()"
EwrCtxDone ==
    /\ ewr.pc = "wait"
    /\ ewr.cancelled
    /\ ewr' = [ewr EXCEPT !.pc = "done", !.ret = CtxErr]
    /\ UNCHANGED <<queueVars, wk, up, storeVars, produced, envVars, queryVars, pureVars, wl>>

\* the caller's context is cancelled, at any moment before the return
EwrCancel ==
    /\ ewr.pc # "done"
    /\ ~ewr.cancelled
    /\ ewr' = [ewr EXCEPT !.cancelled = TRUE]
    /\ UNCHANGED <<queueVars, wk, up, storeVars, produced, envVars, queryVars, pureVars, wl>>

(* ----------------------- upload requests and replies ------------------- *)
\* config: MAX_UPLOAD_SIZE, envDefault 10485760
MaxUploadSize == 10485760
StatusAccepted == 202

\* An upload request: the Content-Length of the request (-1: not known),
\* whether the form has a part "file", the size, Content-Type and file
\* extension of that part, whether its bytes can be read, and its token count.
UploadRequests ==
    [contentLength : {-1, MaxUploadSize, MaxUploadSize + 1},
     file : BOOLEAN,
     size : {MaxUploadSize, MaxUploadSize + 1},
     contentType : {"", "text/plain", "application/pdf", "image/png"},
     ext : {".txt", ".TXT", ".pdf", ".png", ""},
     readOK : BOOLEAN,
     tokens : ContentTokens]
\* the uploads of the pipeline model: text files that pass every check
PlainUploads ==
    {q \in UploadRequests :
        /\ q.contentLength = MaxUploadSize /\ q.file /\ q.size = MaxUploadSize
        /\ q.contentType = "text/plain" /\ q.ext = ".txt" /\ q.readOK}
NoUpload == [contentLength |-> -1, file |-> FALSE, size |-> MaxUploadSize,
             contentType |-> "", ext |-> "", readOK |-> FALSE, tokens |-> 0]

\* strings.ToLower(filepath.Ext(header.Filename))
ToLower(ext) == IF ext = ".TXT" THEN ".txt" ELSE ext
\* "switch ext": the content type detected from the file name, "" for none
DetectedType(ext) ==
    CASE ToLower(ext) = ".txt" -> "text/plain"
      [] ToLower(ext) = ".pdf" -> "application/pdf"
      [] OTHER -> ""
AllowedTypes == {"text/plain", "application/pdf"}

\* the reply of the handler: http.Error(w, message, code), or the JSON body
UploadReply(code, id, st) == [code |-> code, document_id |-> id, status |-> st]
NoReply == UploadReply(0, NilID, "")

Init ==
    /\ nextId = 1
    /\ topic = EmptyBag
    /\ wk = [w \in Pool |-> IdleWorker]
    /\ hist = <<>>
    /\ up = [r \in Requests |-> [pc |-> "new", attempt |-> 0, cancelled |-> FALSE,
                                 task |-> NoTask, req |-> NoUpload,
                                 resp |-> NoReply]]
    /\ status = [d \in Requests |-> NoDocument]
    /\ chunks = {}
    /\ nextChunk = 1
    /\ summaries = {}
    /\ embeddings = {}
    /\ produced = 0
    /\ down = {}
    /\ faults = 0
    /\ ewr = NewCaller
    /\ backend = "unset"
    /\ redis = <<>>
    /\ everSet = {}
    /\ qr = [r \in QueryIDs |-> IdleQuery]
    /\ api = [c \in Clients |-> IdleClient]
    /\ kc = [a |-> NoKeyCall, b |-> NoKeyCall]
    /\ ck = NoChunkCall
    /\ pf = NoPureCall
    /\ wl = [w \in Pool |-> NewWorker]

QueueNext ==
    \/ Produce
    \/ \E w \in Workers : Deliver(w)
    \/ \E w \in Workers : Wake(w)
    \/ \E w \in Workers : HandlerReturns(w)
    \/ \E w \in Workers : RetryTask(w)
    \/ Tick
    \/ \E s \in {"queue"} : Outage(s)
    \/ \E s \in {"queue"} : Recover(s)

QueueSpec == Init /\ [][QueueNext]_vars

\* The queue with two workers in the group of each task type.
GroupNext ==
    \/ Produce
    \/ \E w \in Pool : Deliver(w)
    \/ \E w \in Pool : Wake(w)
    \/ \E w \in Pool : HandlerReturns(w)
    \/ \E w \in Pool : RetryTask(w)
    \/ Tick
    \/ \E s \in {"queue"} : Outage(s)
    \/ \E s \in {"queue"} : Recover(s)

GroupSpec == Init /\ [][GroupNext]_vars

\* a producer of two parse tasks, due at once or a second later, that are
\* given up after their first or their second failed call
ProducePair ==
    /\ produced < 2
    /\ \E nb \in {ZeroTime, now + Second}, m \in {1, 2} :
          EnqueueEffect(Task(NilID, TaskTypeParse, NoPayload, 0, m, nb), Up("queue"))
    /\ produced' = produced + 1
    /\ UNCHANGED <<wk, up, storeVars, envVars, callerVars, queryVars, pureVars, wl>>

\* The queue with two tasks of one type.
PairNext ==
    \/ ProducePair
    \/ \E w \in ParseWorkers : Deliver(w)
    \/ \E w \in ParseWorkers : Wake(w)
    \/ \E w \in ParseWorkers : HandlerReturns(w)
    \/ \E w \in ParseWorkers : RetryTask(w)
    \/ Tick

PairSpec == Init /\ [][PairNext]_vars

\* the workers whose call of Worker is followed: the first of each type. The
\* calls of the others stay blocked, their subscriptions in place.
Followed == TaskTypes \X {1}

\* a producer of tasks that are given up after their first failed call
ProduceOnce ==
    /\ produced < MaxTasks
    /\ \E type \in TaskTypes, nb \in {ZeroTime, now + Second} :
          EnqueueEffect(Task(NilID, type, NoPayload, 0, 1, nb), Up("queue"))
    /\ produced' = produced + 1
    /\ UNCHANGED <<wk, up, storeVars, envVars, callerVars, queryVars, pureVars, wl>>

\* The queue with the calls of Worker that register its workers followed from
\* the subscription to the return.
WorkerNext ==
    \/ ProduceOnce
    \/ \E w \in Workers : Deliver(w)
    \/ \E w \in Workers : Wake(w)
    \/ \E w \in Workers : HandlerReturns(w)
    \/ \E w \in Workers : RetryTask(w)
    \/ Tick
    \/ \E s \in {"queue"} : Outage(s)
    \/ \E s \in {"queue"} : Recover(s)
    \/ \E w \in Followed : CancelWorker(w)
    \/ \E w \in Followed : WorkerReturns(w)
    \/ \E w \in Followed : WorkerStart(w)

WorkerSpec == Init /\ [][WorkerNext]_vars
\* the goroutine blocked in "<-ctx.Done()" runs once the channel is closed
FairWorkerSpec == WorkerSpec /\ \A w \in Followed : WF_vars(WorkerReturns(w))

(* ------------------- EnqueueWithRetry alone, on the queue --------------- *)
EnqueueNext ==
    \/ EwrStart
    \/ EwrCall
    \/ EwrTimer
    \/ EwrCtxDone
    \/ EwrCancel
    \/ \E s \in {"queue"} : Outage(s)
    \/ \E s \in {"queue"} : Recover(s)

EnqueueSpec == Init /\ [][EnqueueNext]_vars

(* -------------------- the cache behind its interface ------------------- *)
CacheNext ==
    \/ BuildQuery
    \/ Expire
    \/ \E c \in Clients : ApiSet(c)
    \/ \E c \in Clients : ApiGet(c)
    \/ \E c \in Clients : ApiInvalidate(c)
    \/ \E c \in Clients : ApiInvalidateExec(c)
    \/ \E c \in Clients : ApiClose(c)
    \/ \E s \in {"cache"} : Outage(s)
    \/ \E s \in {"cache"} : Recover(s)

CacheSpec == Init /\ [][CacheNext]_vars

(* --------------------------- the query service -------------------------- *)
QueryNext ==
    \/ BuildQuery
    \/ Expire
    \/ \E r \in QueryIDs : QueryStart(r)
    \/ \E r \in QueryIDs : QueryEmbed(r)
    \/ \E r \in QueryIDs : QuerySearch(r)
    \/ \E r \in QueryIDs : QueryAnswer(r)
    \/ \E r \in QueryIDs : QueryCacheWrite(r)
    \/ \E c \in OtherWriters : ApiSet(c)
    \/ \E s \in QueryServices : Outage(s)
    \/ \E s \in QueryServices : Recover(s)

QuerySpec == Init /\ [][QueryNext]_vars

(* --------------------------- ChunkText alone ---------------------------- *)
ChunkNext ==
    \/ ChunkCall
    \/ ChunkIter

ChunkSpec == Init /\ [][ChunkNext]_vars
\* the loop is not suspended for ever: the function runs on its own goroutine
FairChunkSpec == ChunkSpec /\ WF_vars(ChunkIter)

(* ---------------------------- truncate alone ---------------------------- *)
TruncateNext == TruncateCall

TruncateSpec == Init /\ [][TruncateNext]_vars

(* --------------------------- confidence alone --------------------------- *)
ConfidenceNext == AnswerConfidence

ConfidenceSpec == Init /\ [][ConfidenceNext]_vars

(* ----------------------- ExponentialBackoff alone ----------------------- *)
BackoffNext == BackoffCall

BackoffSpec == Init /\ [][BackoffNext]_vars

(* ------------------------ the cache key alone -------------------------- *)
KeyNext ==
    \/ \E slot \in {"a", "b"} : CallGenerateCacheKey(slot)
    \/ \E slot \in {"a", "b"} : ReceiveRequest(slot)

KeySpec == Init /\ [][KeyNext]_vars

(* ------------------------------ chunker -------------------------------- *)
\* ChunkText on a text of n whitespace-separated tokens: the windows
\* [start, end) of the loop, in order, with Index and TokenCount.
RECURSIVE ChunkLoop(_, _, _, _, _)
ChunkLoop(n, maxTokens, step, start, acc) ==
    IF start >= n THEN acc
    ELSE LET end == IF start + maxTokens > n THEN n ELSE start + maxTokens
             c == [Index |-> Len(acc), start |-> start, end |-> end,
                   TokenCount |-> end - start]
         IN  IF end = n THEN Append(acc, c)
             ELSE ChunkLoop(n, maxTokens, step, start + step, Append(acc, c))

ChunkTextOneChunkWhenEmpty(n, maxTokens, overlap) ==
    <<[Index |-> 0, start |-> 0, end |-> n, TokenCount |-> n]>>
\* chunker.ChunkText on a text of n tokens: no chunk when there is no token
ChunkText(n, maxTokens, overlap) ==
    LET mt == IF maxTokens <= 0 THEN ChunkDefaultMaxTokens ELSE maxTokens
        ov == IF overlap < 0 THEN 0 ELSE overlap
        step == IF mt - ov <= 0 THEN mt ELSE mt - ov
    IN  IF n = 0 THEN <<>> ELSE ChunkLoop(n, mt, step, 0, <<>>)

(* ------------------------------- store --------------------------------- *)
\* CreateDocument: INSERT INTO documents(id, filename, status) ... StatusProcessing
CreateDocument(st, id) == [st EXCEPT ![id] = StatusProcessing]

UpdateDocumentStatusOnError(st, id, s, ok) ==
    [status |-> IF st[id] = NoDocument THEN st ELSE [st EXCEPT ![id] = s],
     err |-> ~ok \/ st[id] = NoDocument]
\* UpdateDocumentStatus: UPDATE documents SET status=$1 WHERE id=$2; an error
\* of the statement, or no row affected, is returned as an error.
UpdateDocumentStatus(st, id, s, ok) ==
    IF ~ok THEN [status |-> st, err |-> TRUE]
    ELSE IF st[id] = NoDocument THEN [status |-> st, err |-> TRUE]
    ELSE [status |-> [st EXCEPT ![id] = s], err |-> FALSE]

\* SaveChunks: one INSERT per chunk, each with a fresh uuid, in one transaction.
\* The rows inserted for batch cs, ids counted from `first`.
SaveChunks(docID, cs, first) ==
    {[id |-> first + i - 1, document_id |-> docID, ord |-> cs[i].Index,
      token_count |-> cs[i].TokenCount] : i \in 1..Len(cs)}

\* ListChunks: SELECT ... FROM chunks WHERE document_id=$1
ListChunks(rows, docID) == {c \in rows : c.document_id = docID}

SaveSummaryNoWrite(sums, docID) == sums
\* SaveSummary: INSERT ... ON CONFLICT (document_id) DO UPDATE
SaveSummary(sums, docID) == sums \cup {docID}

\* SaveEmbeddings: upsert of the whole batch
SaveEmbeddings(embs, batch) == embs \cup batch

(* ------------------------ gateway: uploadHandler ----------------------- *)
ValidateAnyType(q) ==
    IF q.contentLength > MaxUploadSize THEN StatusBadRequest
    ELSE IF ~q.file THEN StatusBadRequest
    ELSE IF q.size > MaxUploadSize THEN StatusBadRequest
    ELSE IF ~q.readOK THEN StatusInternalServerError
    ELSE 0
\* uploadHandler up to io.ReadAll: the status code of the failure, 0 for none
Validate(q) ==
    IF q.contentLength > MaxUploadSize THEN StatusBadRequest
    ELSE IF ~q.file THEN StatusBadRequest
    ELSE IF q.size > MaxUploadSize THEN StatusBadRequest
    ELSE IF q.contentType = "" /\ DetectedType(q.ext) = "" THEN StatusBadRequest
    ELSE IF (IF q.contentType = "" THEN DetectedType(q.ext) ELSE q.contentType)
                \notin AllowedTypes THEN StatusBadRequest
    ELSE IF ~q.readOK THEN StatusInternalServerError
    ELSE 0

\* uploadHandler for one of the requests `qs`: the checks, CreateDocument, then
\* the parse task is built
UploadHandle(r, qs) ==
    /\ up[r].pc = "new"
    /\ \E q \in qs :
        IF Validate(q) # 0
        THEN /\ status' = status
             /\ up' = [up EXCEPT ![r].pc = "error", ![r].req = q,
                         ![r].resp = UploadReply(Validate(q), NilID, "")]
        ELSE IF Up("store")
        THEN /\ status' = CreateDocument(status, r)
             /\ up' = [up EXCEPT ![r].pc = "Enqueue", ![r].req = q,
                         ![r].task = Task(NilID, TaskTypeParse,
                             [document_id |-> r, content |-> q.tokens,
                              chunk_ids |-> {}],
                             0, 0, ZeroTime)]
        ELSE /\ status' = status
             /\ up' = [up EXCEPT ![r].pc = "error", ![r].req = q,
                         ![r].resp = UploadReply(StatusInternalServerError,
                                                 NilID, "")]
    /\ UNCHANGED <<queueVars, wk, chunks, nextChunk, summaries, embeddings, produced, callerVars, queryVars, pureVars, envVars, wl>>

\* an upload of a text file that passes the checks
UploadCreate(r) == UploadHandle(r, PlainUploads)
\* an upload of any kind
UploadReceive(r) == UploadHandle(r, UploadRequests)

\* EnqueueWithRetry(ctx, deps.Queue, task, 3, 200ms): one q.Enqueue call
UploadEnqueue(r) ==
    /\ up[r].pc = "Enqueue"
    /\ EnqueueEffect(up[r].task, Up("queue"))
    /\ LET after == AfterEnqueue(up[r].attempt, EnqueueAttempts,
                                 Enqueue(up[r].task, Up("queue")).err)
       IN  up' = [up EXCEPT ![r].pc = CASE after = "ok" -> "accepted"
                                        [] after = "err" -> "fail"
                                        [] OTHER -> "EnqueueWait",
                            ![r].resp = IF after = "ok"
                                        THEN UploadReply(StatusAccepted, r,
                                                         StatusProcessing)
                                        ELSE @]
    /\ UNCHANGED <<wk, storeVars, produced, callerVars, queryVars, pureVars, envVars, wl>>

\* EnqueueWithRetry: "case <-time.After(...)", the backoff timer fires
UploadEnqueueWait(r) ==
    /\ up[r].pc = "EnqueueWait"
    /\ up' = [up EXCEPT ![r].pc = "Enqueue", ![r].attempt = @ + 1]
    /\ UNCHANGED <<queueVars, wk, storeVars, produced, callerVars, queryVars, pureVars, envVars, wl>>

\* EnqueueWithRetry: "case <-ctx.Done(): return ctx.Err()", the client has gone
UploadCancelled(r) ==
    /\ up[r].pc = "EnqueueWait"
    /\ faults < MaxFaults
    /\ faults' = faults + 1
    /\ up' = [up EXCEPT ![r].pc = "fail", ![r].cancelled = TRUE]
    /\ UNCHANGED <<queueVars, wk, storeVars, produced, callerVars, queryVars, pureVars, down, wl>>

MarkFailedNever(markFailed, docID) == FALSE
\* fail: "if markFailed && docID != uuid.Nil"
MarkFailed(markFailed, docID) == markFailed /\ docID # NilID

\* fail(deps, ctx, w, ..., doc.ID, 500, true): the status update runs under the
\* request's context, so it fails once that context is cancelled.
UploadFail(r) ==
    /\ up[r].pc = "fail"
    /\ status' = IF MarkFailed(TRUE, r)
                 THEN UpdateDocumentStatus(status, r, StatusFailed,
                                           Up("store") /\ ~up[r].cancelled).status
                 ELSE status
    /\ up' = [up EXCEPT ![r].pc = "error",
                 ![r].resp = UploadReply(StatusInternalServerError, NilID, "")]
    /\ UNCHANGED <<queueVars, wk, chunks, nextChunk, summaries, embeddings, produced, callerVars, queryVars, pureVars, envVars, wl>>

(* --------------------------- worker handlers --------------------------- *)
\* a payload document_id that is not the text of a uuid ("invalid-uuid")
MalformedID == -1

UUIDParseNeverFails(s) == [err |-> FALSE]
\* uuid.Parse(payload.DocumentID)
UUIDParse(s) == [err |-> s = MalformedID]

\* handleMessage calls handler(ctx, task); the handler decodes the payload and
\* returns the error of uuid.Parse.
Invoke(w) ==
    /\ wk[w].pc = "handler"
    /\ wk' = [wk EXCEPT ![w] =
                IF UUIDParse(wk[w].task.Payload.document_id).err
                THEN Returned(wk[w], TRUE)
                ELSE [wk[w] EXCEPT !.pc = IF w[1] = TaskTypeParse
                                          THEN "SaveChunks" ELSE "ListChunks"]]
    /\ hist' = Called(hist, wk[w].task.ID)
    /\ UNCHANGED <<nextId, topic, up, storeVars, produced, callerVars, queryVars, pureVars, envVars, wl>>

ProceedIgnoringError(w, ok, next) ==
    /\ wk' = [wk EXCEPT ![w] = [wk[w] EXCEPT !.pc = next]]
    /\ UNCHANGED <<queueVars, up, produced, callerVars, queryVars, pureVars, envVars, wl>>
\* a handler step that returns its error, or goes on to pc `next`
Proceed(w, ok, next) ==
    /\ wk' = [wk EXCEPT ![w] =
                IF ~ok THEN Returned(wk[w], TRUE)
                ELSE [wk[w] EXCEPT !.pc = next,
                        !.log = IF wk[w].pc \in {"SaveSummary", "SaveEmbeddings"}
                                THEN Append(@, wk[w].pc) ELSE @]]
    /\ UNCHANGED <<queueVars, up, produced, callerVars, queryVars, pureVars, envVars, wl>>

AnalyzeTaskOfParseType(docID, ids, t) ==
    Task(NilID, TaskTypeParse,
         [document_id |-> docID, content |-> 0, chunk_ids |-> ids], 0, 0, t)
\* handleParse: queue.Task{Type: TaskTypeAnalyze, Payload: {document_id,
\* chunk_ids}, NotBefore: time.Now()}
AnalyzeTask(docID, ids, t) ==
    Task(NilID, TaskTypeAnalyze,
         [document_id |-> docID, content |-> 0, chunk_ids |-> ids], 0, 0, t)

\* handleParse: ChunkText, SaveChunks, then the analyze task is built
ParseSaveChunks(w) ==
    /\ wk[w].pc = "SaveChunks"
    /\ LET p == wk[w].task.Payload
           cs == ChunkText(p.content, ParseMaxTokens, ParseOverlap)
           rows == SaveChunks(p.document_id, cs, nextChunk)
       IN  IF Up("store")
           THEN /\ chunks' = chunks \cup rows
                /\ nextChunk' = nextChunk + Len(cs)
                /\ wk' = [wk EXCEPT ![w].pc = "Enqueue", ![w].attempt = 0,
                             ![w].log = Append(@, "SaveChunks"),
                             ![w].out = AnalyzeTask(p.document_id,
                                                    {c.id : c \in rows}, now)]
           ELSE /\ UNCHANGED <<chunks, nextChunk>>
                /\ wk' = [wk EXCEPT ![w] = Returned(wk[w], TRUE)]
    /\ UNCHANGED <<queueVars, up, status, summaries, embeddings, produced, callerVars, queryVars, pureVars, envVars, wl>>

\* handleParse: EnqueueWithRetry(ctx, deps.Queue, task, 3, 200ms), one q.Enqueue
\* call; the handler returns when the loop does
ParseEnqueue(w) ==
    /\ wk[w].pc = "Enqueue"
    /\ LET r == Enqueue(wk[w].out, Up("queue"))
           after == AfterEnqueue(wk[w].attempt, EnqueueAttempts, r.err)
           h == IF after = "ok" THEN Outcome(hist, wk[w].task.ID, FALSE) ELSE hist
       IN  /\ topic' = topic (+) SetToBag(r.sent)
           /\ nextId' = IF r.sent # {} THEN nextId + 1 ELSE nextId
           /\ hist' = IF r.sent # {} THEN h @@ (nextId :> NewHist(wk[w].out)) ELSE h
           /\ wk' = [wk EXCEPT ![w] =
                       CASE after = "ok" -> Returned(wk[w], FALSE)
                         [] after = "err" -> Returned(wk[w], TRUE)
                         [] OTHER -> [wk[w] EXCEPT !.pc = "EnqueueWait"]]
    /\ UNCHANGED <<up, storeVars, produced, callerVars, queryVars, pureVars, envVars, wl>>

\* EnqueueWithRetry: the backoff timer fires (the worker's context is not cancelled)
ParseEnqueueWait(w) ==
    /\ wk[w].pc = "EnqueueWait"
    /\ wk' = [wk EXCEPT ![w].pc = "Enqueue", ![w].attempt = @ + 1]
    /\ UNCHANGED <<queueVars, up, storeVars, produced, callerVars, queryVars, pureVars, envVars, wl>>

\* handleAnalyze: deps.Store.ListChunks
AnalyzeListChunks(w) ==
    /\ wk[w].pc = "ListChunks"
    /\ wk' = [wk EXCEPT ![w] =
                IF Up("store")
                THEN [wk[w] EXCEPT !.pc = "Summarize",
                       !.listed = {c.id : c \in ListChunks(chunks, wk[w].task.Payload.document_id)}]
                ELSE Returned(wk[w], TRUE)]
    /\ UNCHANGED <<queueVars, up, storeVars, produced, callerVars, queryVars, pureVars, envVars, wl>>

\* handleAnalyze: deps.LLM.Summarize
AnalyzeSummarize(w) ==
    /\ wk[w].pc = "Summarize"
    /\ Proceed(w, Up("llm"), "SaveSummary")
    /\ UNCHANGED storeVars

\* handleAnalyze: deps.Store.SaveSummary
AnalyzeSaveSummary(w) ==
    /\ wk[w].pc = "SaveSummary"
    /\ Proceed(w, Up("store"), "GetDocument")
    /\ summaries' = IF Up("store")
                    THEN SaveSummary(summaries, wk[w].task.Payload.document_id)
                    ELSE summaries
    /\ UNCHANGED <<status, chunks, nextChunk, embeddings>>

\* GetDocument: the documents row, or an error
GetDocument(st, id, ok) == [err |-> ~ok \/ st[id] = NoDocument]

\* handleAnalyze: deps.Store.GetDocument
AnalyzeGetDocument(w) ==
    /\ wk[w].pc = "GetDocument"
    /\ Proceed(w, ~GetDocument(status, wk[w].task.Payload.document_id, Up("store")).err,
               "EmbedBatch")
    /\ UNCHANGED storeVars

\* handleAnalyze: deps.Embedder.EmbedBatch
AnalyzeEmbedBatch(w) ==
    /\ wk[w].pc = "EmbedBatch"
    /\ Proceed(w, Up("embedder"), "SaveEmbeddings")
    /\ UNCHANGED storeVars

EmbeddingBatchSkipOne(listed) ==
    IF listed = {} THEN {} ELSE listed \ {CHOOSE c \in listed : TRUE}
\* handleAnalyze: embeddings[i] = store.Embedding{ChunkID: c.ID, ...} for each chunk
EmbeddingBatch(listed) == listed

\* handleAnalyze: deps.Store.SaveEmbeddings
AnalyzeSaveEmbeddings(w) ==
    /\ wk[w].pc = "SaveEmbeddings"
    /\ Proceed(w, Up("store"), "UpdateStatus")
    /\ embeddings' = IF Up("store")
                     THEN SaveEmbeddings(embeddings, EmbeddingBatch(wk[w].listed))
                     ELSE embeddings
    /\ UNCHANGED <<status, chunks, nextChunk, summaries>>

\* handleAnalyze: "return deps.Store.UpdateDocumentStatus(ctx, docID, store.StatusReady)"
AnalyzeUpdateStatus(w) ==
    /\ wk[w].pc = "UpdateStatus"
    /\ LET r == UpdateDocumentStatus(status, wk[w].task.Payload.document_id,
                                     StatusReady, Up("store"))
       IN  /\ status' = r.status
           /\ wk' = [wk EXCEPT ![w] = Returned(wk[w], r.err)]
           /\ hist' = Outcome(hist, wk[w].task.ID, r.err)
    /\ UNCHANGED <<nextId, topic, up, chunks, nextChunk, summaries, embeddings, produced, callerVars, queryVars, pureVars, envVars, wl>>

\* one parse task whose payload has a malformed document_id is published, to be
\* given up after its first failed call
PublishMalformed ==
    /\ produced = 0
    /\ \E tokens \in ContentTokens :
          EnqueueEffect(Task(NilID, TaskTypeParse,
                             [document_id |-> MalformedID, content |-> tokens,
                              chunk_ids |-> {}], 0, 1, ZeroTime), Up("queue"))
    /\ produced' = produced + 1
    /\ UNCHANGED <<wk, up, storeVars, envVars, callerVars, queryVars, pureVars, wl>>

(* ---------------- queries while the pipeline makes progress ------------ *)
\* the document a uuid of a query stands for: IdA is the uploaded document
DocumentOf(u) == IF u = IdA THEN 1 ELSE NilID
\* the elements of a set of numbers in increasing order
RECURSIVE Ascending(_)
Ascending(S) ==
    IF S = {} THEN <<>>
    ELSE LET m == CHOOSE x \in S : \A y \in S : x <= y
         IN  <<m>> \o Ascending(S \ {m})
\* PostgresStore.TopK: the chunks of the requested documents that have an
\* embedding, at most k of them (the similarity order is taken to be the order
\* of the chunk ids)
TopK(embs, rows, docs, k) ==
    LET hits == {c.id : c \in {x \in rows : x.document_id \in docs /\ x.id \in embs}}
        all == Ascending(hits)
    IN  IF Len(all) <= k THEN all ELSE SubSeq(all, 1, k)
\* parseDocumentIDs(req.DocumentIDs)
ParseDocumentIDs(ids) == {DocumentOf(ids[i]) : i \in 1..Len(ids)}
\* what the normal flow finds for request req in the tables as they are
Found(req) ==
    TopK(embeddings, chunks, ParseDocumentIDs(req.DocumentIDs),
         EffectiveTopK(req.TopK))
\* the query that is asked about the uploaded document
DocumentQueries ==
    {Body([Question |-> "why", DocumentIDs |-> <<IdA>>, TopK |-> 0])}

QueryAsk(r) == QueryStartOf(r, DocumentQueries)
QueryTopK(r) == QuerySearchOf(r, {Found(qr[r].body.req)})

\* The pipeline and the query service, with every service up.
ReadThroughNext ==
    \/ BuildQuery
    \/ Expire
    \/ \E r \in QueryIDs : QueryAsk(r)
    \/ \E r \in QueryIDs : QueryEmbed(r)
    \/ \E r \in QueryIDs : QueryTopK(r)
    \/ \E r \in QueryIDs : QueryAnswer(r)
    \/ \E r \in QueryIDs : QueryCacheWrite(r)
    \/ \E r \in Requests : UploadCreate(r)
    \/ \E r \in Requests : UploadEnqueue(r)
    \/ \E w \in Workers : Deliver(w)
    \/ \E w \in Workers : Invoke(w)
    \/ \E w \in Workers : ParseSaveChunks(w)
    \/ \E w \in Workers : ParseEnqueue(w)
    \/ \E w \in Workers : AnalyzeListChunks(w)
    \/ \E w \in Workers : AnalyzeSummarize(w)
    \/ \E w \in Workers : AnalyzeSaveSummary(w)
    \/ \E w \in Workers : AnalyzeGetDocument(w)
    \/ \E w \in Workers : AnalyzeEmbedBatch(w)
    \/ \E w \in Workers : AnalyzeSaveEmbeddings(w)
    \/ \E w \in Workers : AnalyzeUpdateStatus(w)

ReadThroughSpec == Init /\ [][ReadThroughNext]_vars

\* The gateway's upload handler alone, with uploads of every kind.
UploadNext ==
    \/ \E r \in Requests : UploadReceive(r)
    \/ \E r \in Requests : UploadEnqueue(r)
    \/ \E r \in Requests : UploadEnqueueWait(r)
    \/ \E r \in Requests : UploadCancelled(r)
    \/ \E r \in Requests : UploadFail(r)
    \/ \E s \in {"store", "queue"} : Outage(s)
    \/ \E s \in {"store", "queue"} : Recover(s)

UploadSpec == Init /\ [][UploadNext]_vars

\* The upload and the parser alone, with well-formed and malformed payloads.
ParseNext ==
    \/ \E r \in Requests : UploadCreate(r)
    \/ \E r \in Requests : UploadEnqueue(r)
    \/ \E r \in Requests : UploadEnqueueWait(r)
    \/ \E r \in Requests : UploadFail(r)
    \/ PublishMalformed
    \/ \E w \in ParseWorkers : Deliver(w)
    \/ \E w \in ParseWorkers : Wake(w)
    \/ \E w \in ParseWorkers : Invoke(w)
    \/ \E w \in ParseWorkers : ParseSaveChunks(w)
    \/ \E w \in ParseWorkers : ParseEnqueue(w)
    \/ \E w \in ParseWorkers : ParseEnqueueWait(w)
    \/ \E w \in ParseWorkers : RetryTask(w)
    \/ Tick
    \/ \E s \in {"store", "queue"} : Outage(s)
    \/ \E s \in {"store", "queue"} : Recover(s)

ParseSpec == Init /\ [][ParseNext]_vars

Next ==
    \/ \E r \in Requests : UploadCreate(r)
    \/ \E r \in Requests : UploadEnqueue(r)
    \/ \E r \in Requests : UploadEnqueueWait(r)
    \/ \E r \in Requests : UploadCancelled(r)
    \/ \E r \in Requests : UploadFail(r)
    \/ \E w \in Workers : Deliver(w)
    \/ \E w \in Workers : Wake(w)
    \/ \E w \in Workers : Invoke(w)
    \/ \E w \in Workers : ParseSaveChunks(w)
    \/ \E w \in Workers : ParseEnqueue(w)
    \/ \E w \in Workers : ParseEnqueueWait(w)
    \/ \E w \in Workers : AnalyzeListChunks(w)
    \/ \E w \in Workers : AnalyzeSummarize(w)
    \/ \E w \in Workers : AnalyzeSaveSummary(w)
    \/ \E w \in Workers : AnalyzeGetDocument(w)
    \/ \E w \in Workers : AnalyzeEmbedBatch(w)
    \/ \E w \in Workers : AnalyzeSaveEmbeddings(w)
    \/ \E w \in Workers : AnalyzeUpdateStatus(w)
    \/ \E w \in Workers : RetryTask(w)
    \/ Tick
    \/ \E s \in Services : Outage(s)
    \/ \E s \in Services : Recover(s)

Spec == Init /\ [][Next]_vars

\* one step of worker w: of its subscription callback or of its handler
WorkerStep(w) ==
    \/ Deliver(w)
    \/ Wake(w)
    \/ Invoke(w)
    \/ ParseSaveChunks(w)
    \/ ParseEnqueue(w)
    \/ ParseEnqueueWait(w)
    \/ AnalyzeListChunks(w)
    \/ AnalyzeSummarize(w)
    \/ AnalyzeSaveSummary(w)
    \/ AnalyzeGetDocument(w)
    \/ AnalyzeEmbedBatch(w)
    \/ AnalyzeSaveEmbeddings(w)
    \/ AnalyzeUpdateStatus(w)
    \/ RetryTask(w)

\* The pipeline with workers that keep running, a queue that hands a published
\* message to the subscribed worker, and a clock that goes on.
FairSpec ==
    Spec /\ WF_vars(Tick) /\ \A w \in Workers : WF_vars(WorkerStep(w))

(* ======================= properties of the queue ======================= *)
\* the copies of task id that are published or held by a worker
Copies(id) == {t \in InFlight : t.ID = id}
\* max_attempts of task id as the queue counts it: 0 stands for the default
Limit(id) == IF hist[id].MaxAttempts = 0 THEN DefaultMaxAttempts
             ELSE hist[id].MaxAttempts

\* C1: a task with max_attempts M (0 counted as 5) whose handler fails on every
\* delivery and whose re-publishes all succeed (fate "live" until it is dropped)
\* stays in the system until its handler has been called M times, is then
\* logged as permanently failed (fate "dead") and dropped, and the handler is
\* never called an (M+1)-th time.
C1_ExactlyMaxAttemptsCalls ==
    \A id \in DOMAIN hist :
        /\ hist[id].calls <= Limit(id)
        /\ hist[id].fate = "live" => Copies(id) # {}
        /\ hist[id].fate = "dead" => hist[id].calls = Limit(id) /\ Copies(id) = {}

\* a task published with max_attempts 0 has been dropped after five failed calls
C1_Witness ==
    \E id \in DOMAIN hist :
        hist[id].MaxAttempts = 0 /\ hist[id].fate = "dead" /\ hist[id].calls = 5

\* what C8 says of a step of retryTask for a task with attempts + 1 < max_attempts:
\* exactly one copy is added to the topic, with the same id, type and payload,
\* attempts one higher, and not_before = now + 1s * 2^(new attempts)
RepublishedOnce(w) ==
    LET task == wk[w].task
    IN  \E c \in BagToSet(topic') :
            /\ topic' = topic (+) SetToBag({c})
            /\ c.ID = task.ID /\ c.Type = task.Type /\ c.Payload = task.Payload
            /\ c.Attempts = task.Attempts + 1
            /\ c.NotBefore = now + Second * Pow2(c.Attempts)
            /\ (task.MaxAttempts \in {0, 5} => c.NotBefore = <<2, 4, 8, 16>>[c.Attempts])
\* retryTask runs for a task whose attempts + 1 is below its max_attempts
RetryDue(w) ==
    /\ wk[w].pc = "retry"
    /\ wk'[w].pc = "idle"
    /\ wk[w].task.Attempts + 1 < Limit(wk[w].task.ID)

\* C8 as stated: after a handler error with attempts + 1 < max_attempts the
\* queue re-publishes exactly one copy (same id, type, payload, attempts + 1,
\* not_before = now + 1s * 2^attempts; 2s, 4s, 8s, 16s by default).
C8_AsStated ==
    [][\A w \in Workers : RetryDue(w) => RepublishedOnce(w)]_vars

\* C8, amended: the copy is published if the publish succeeds; if the publish
\* fails no copy is published and the topic is left as it was.
C8_RepublishIfPublishSucceeds ==
    [][\A w \in Workers :
          RetryDue(w) => IF Up("queue") THEN RepublishedOnce(w)
                         ELSE topic' = topic]_vars

\* the fourth retry copy of a task is published, due in 16 seconds
C8_Witness ==
    \E t \in BagToSet(topic) : t.Attempts = 4 /\ t.NotBefore = 16

\* C9: a handler is never invoked before the task's not_before: a worker about
\* to call the handler holds a task whose not_before is not after the clock.
C9_NotBeforeRespected ==
    \A w \in Workers : wk[w].pc = "handler" => wk[w].task.NotBefore <= now

\* a retry copy, published with a not_before in the future, is being handled
C9_Witness ==
    \E w \in Workers : wk[w].pc = "handler" /\ wk[w].task.Attempts > 0

\* C10 as stated: a task whose handler succeeded is never re-published, and a
\* task is gone from the system only after a successful handler run or after
\* its permanent failure.
C10_AsStated ==
    \A id \in DOMAIN hist :
        /\ hist[id].fate = "done" => Copies(id) = {}
        /\ Copies(id) = {} => hist[id].fate \in {"done", "dead"}

\* C10, amended: a task whose handler succeeded is never re-published, and a
\* task is gone from the system only after a successful handler run, after its
\* permanent failure, or after a re-publish by retryTask that failed.
C10_GoneOnlyByDoneDeadOrLost ==
    \A id \in DOMAIN hist :
        /\ hist[id].fate = "done" => Copies(id) = {}
        /\ Copies(id) = {} => hist[id].fate \in {"done", "dead", "lost"}
        /\ hist[id].fate = "lost" => hist[id].calls < Limit(id)

\* a task is gone after its handler succeeded on a retry
C10_Witness ==
    \E id \in DOMAIN hist :
        hist[id].fate = "done" /\ hist[id].calls > 1 /\ Copies(id) = {}

(* ====================== properties of the pipeline ===================== *)
\* the tasks ever published for document d
TasksOf(d) == {id \in DOMAIN hist : hist[id].Document = d}

\* C2: whenever a document's status is ready, every chunk row stored for it
\* has a stored embedding.
C2_ReadyChunksEmbedded ==
    \A d \in Requests :
        status[d] = StatusReady =>
            \A c \in ListChunks(chunks, d) : c.id \in embeddings

\* a document with chunk rows is ready
C2_Witness ==
    \E d \in Requests : status[d] = StatusReady /\ ListChunks(chunks, d) # {}

\* C3: ready is written only as the last step of an analyze run in which
\* SaveSummary and then SaveEmbeddings succeeded in that same run, so every
\* ready document has a persisted summary.
C3_ReadyOnlyAfterSummaryAndEmbeddings ==
    /\ [](\A d \in Requests : status[d] = StatusReady => d \in summaries)
    /\ [][\A d \in Requests :
            (status'[d] = StatusReady /\ status[d] # StatusReady) =>
                \E w \in Workers :
                    /\ w[1] = TaskTypeAnalyze
                    /\ wk[w].task.Payload.document_id = d
                    /\ wk[w].log = <<"SaveSummary", "SaveEmbeddings">>
                    /\ wk'[w].pc = "idle"
                    /\ hist'[wk[w].task.ID].fate = "done"]_vars

\* a document is ready after an analyze run that was a retry
C3_Witness ==
    \E d \in Requests :
        /\ status[d] = StatusReady
        /\ \E id \in TasksOf(d) : hist[id].Type = TaskTypeAnalyze /\ hist[id].calls > 1

\* C4: a document is created in status processing; ready and failed are
\* absorbing, so a document the upload path marked failed never becomes ready.
C4_StatusAbsorbing ==
    [][\A d \in Requests :
          /\ (status[d] = NoDocument /\ status'[d] # NoDocument)
                => status'[d] = StatusProcessing
          /\ status[d] \in {StatusReady, StatusFailed} => status'[d] = status[d]]_vars

\* a document is marked failed and every service has recovered since
C4_Witness ==
    \E d \in Requests : status[d] = StatusFailed /\ down = {} /\ faults > 0

\* the upload of r has returned an error after its document was created
UploadFailedAfterCreate(r) == up[r].pc = "error" /\ status[r] # NoDocument

C6_ExhaustedStaysProcessing ==
    /\ \A d \in Requests :
           status[d] = StatusFailed => up[d].pc = "error" /\ TasksOf(d) = {}
    /\ \A id \in DOMAIN hist :
           hist[id].fate = "dead" => status[hist[id].Document] = StatusProcessing

\* an analyze task has been dropped after its last attempt
C6_Witness ==
    \E id \in DOMAIN hist :
        hist[id].Type = TaskTypeAnalyze /\ hist[id].fate = "dead" /\ hist[id].calls = 5

\* C7 as stated: chunks are created once and are immutable: the chunk rows of
\* a document do not change after the first SaveChunks batch that succeeded.
C7_AsStated ==
    [][\A d \in Requests :
          ListChunks(chunks, d) # {} =>
              ListChunks(chunks', d) = ListChunks(chunks, d)]_vars

(* ================== properties of EnqueueWithRetry and Enqueue ========= *)
\* max(n, 1) for the caller's attempts n
MaxCalls == IF ewr.attempts > 1 THEN ewr.attempts ELSE 1

\* C11: EnqueueWithRetry(task, n, base) calls Enqueue at most max(n, 1) times;
\* a successful Enqueue call is the last one and is followed at once by the
\* return of nil (and nil is returned only then); when all max(n, 1) calls
\* have failed the error of the last call is returned.
C11_AtMostNCallsFirstSuccessOrLastError ==
    LET k == Len(ewr.results)
    IN  /\ k <= MaxCalls
        /\ \A i \in 1..k :
               ewr.results[i] = NilError =>
                   i = k /\ ewr.pc = "done" /\ ewr.ret = NilError
        /\ ewr.ret = NilError => k >= 1 /\ ewr.results[k] = NilError
        /\ (k = MaxCalls /\ ewr.results[k] # NilError) =>
               ewr.pc = "done" /\ ewr.ret = EnqueueError(MaxCalls)

\* three calls have failed and the third error is returned
C11_Witness ==
    /\ ewr.pc = "done" /\ ewr.attempts = 3
    /\ Len(ewr.results) = 3 /\ ewr.ret = EnqueueError(3)

\* C12: a context cancelled while EnqueueWithRetry waits between two attempts
\* makes it return the cancellation error with no further Enqueue call;
\* cancellation is looked at only in the wait, so a return is preceded by at
\* least one Enqueue call, and the wait after failed attempt i (from 0) is
\* base * 2^i.
C12_CancelledInWaitReturnsCtxErr ==
    /\ [][(ewr.pc = "wait" /\ ewr.cancelled /\ ewr' # ewr) =>
            /\ ewr'.pc = "done" /\ ewr'.ret = CtxErr
            /\ ewr'.results = ewr.results]_vars
    /\ [](ewr.pc = "done" => Len(ewr.results) >= 1)
    /\ [](ewr.ret = CtxErr => ewr.cancelled /\ Len(ewr.results) < MaxCalls)
    /\ [](\A i \in 1..Len(ewr.waits) :
             /\ ewr.waits[i] = ewr.base * Pow2(i - 1)
             /\ ewr.results[i] = EnqueueError(i))

\* the context was cancelled in the second wait: two calls were made
C12_Witness ==
    ewr.ret = CtxErr /\ Len(ewr.results) = 2 /\ ewr.waits = <<200, 400>>

\* a q.Enqueue call of the caller returns in this step
EnqueueReturns == ewr.pc = "call" /\ Len(ewr'.results) = Len(ewr.results) + 1
\* the ids in use before the step
KnownIDs == DOMAIN hist \cup {t.ID : t \in InFlight} \cup CallerIDs
\* the step publishes the caller's task, and nothing else, with its type (its
\* subject is "tasks." + type), a fresh non-nil id if it had none and its own
\* id otherwise
PublishedAsIs ==
    \E m \in BagToSet(topic') :
        /\ topic' = topic (+) SetToBag({m})
        /\ m = [ewr.task EXCEPT !.ID = m.ID]
        /\ IF ewr.task.ID = NilID THEN m.ID \notin KnownIDs ELSE m.ID = ewr.task.ID
\* the step publishes nothing and the call returns an error
RejectedUnpublished ==
    topic' = topic /\ ewr'.results[Len(ewr'.results)] # NilError

\* C13 as stated: Enqueue of a task with an empty type returns an error and
\* publishes nothing; Enqueue of a task with a type publishes it on the topic
\* of its type, with a fresh non-nil id if it had none and its id otherwise.
C13_AsStated ==
    [][EnqueueReturns =>
          IF ewr.task.Type = "" THEN RejectedUnpublished ELSE PublishedAsIs]_vars

\* C13, amended: a task with a type is published in that way if the publish
\* succeeds; if the publish fails its error is returned and nothing is
\* published.
C13_PublishedIfPublishSucceeds ==
    [][EnqueueReturns =>
          IF ewr.task.Type = "" \/ ~Up("queue") THEN RejectedUnpublished
          ELSE PublishedAsIs /\ ewr'.results[Len(ewr'.results)] = NilError]_vars

\* a task that had an id of its own is published under it
C13_Witness ==
    \E m \in BagToSet(topic) : m.ID # NilID /\ m.ID = ewr.task.ID

(* ===================== properties of the cache key ===================== *)
\* the lists hold the same ids the same number of times
SameMultiset(l, m) ==
    \A x \in UUID4s \cup {IdAB} :
        Cardinality({i \in 1..Len(l) : l[i] = x}) = Cardinality({i \in 1..Len(m) : m[i] = x})

\* C17: GenerateCacheKey does not depend on the order of the document ids:
\* two calls with the same question and top_k and lists that are permutations
\* of each other return the same key, and the caller's list is as it was.
C17_KeyOrderIndependent ==
    /\ (kc.a.mode = "call" /\ kc.b.mode = "call"
        /\ kc.a.in.Question = kc.b.in.Question /\ kc.a.in.TopK = kc.b.in.TopK
        /\ SameMultiset(kc.a.in.DocumentIDs, kc.b.in.DocumentIDs))
           => kc.a.out.key = kc.b.out.key
    /\ \A slot \in {"a", "b"} :
           kc[slot].mode = "call" => kc[slot].out.docIDs = kc[slot].in.DocumentIDs

\* the key was computed for <<IdB, IdA>> and for <<IdA, IdB>>
C17_Witness ==
    /\ kc.a.mode = "call" /\ kc.b.mode = "call"
    /\ kc.a.in.DocumentIDs = <<IdB, IdA>> /\ kc.b.in.DocumentIDs = <<IdA, IdB>>
    /\ kc.a.in.Question = kc.b.in.Question /\ kc.a.in.TopK = kc.b.in.TopK
    /\ kc.a.out.key = kc.b.out.key

\* two requests have passed validation
TwoRequests == kc.a.mode = "request" /\ kc.b.mode = "request"

\* C18 as stated: two requests that differ in the question, in the document
\* ids as a multiset or in top_k get different keys.
C18_AsStated ==
    (TwoRequests /\ (\/ kc.a.in.Question # kc.b.in.Question
                     \/ ~SameMultiset(kc.a.in.DocumentIDs, kc.b.in.DocumentIDs)
                     \/ kc.a.in.TopK # kc.b.in.TopK))
        => kc.a.key # kc.b.key

\* C18, amended: two requests that differ in the question, in the document
\* ids as a multiset or in the top_k in effect (5 for a request that gives
\* none) get different keys.
C18_DistinctRequestsDistinctKeys ==
    (TwoRequests /\ (\/ kc.a.in.Question # kc.b.in.Question
                     \/ ~SameMultiset(kc.a.in.DocumentIDs, kc.b.in.DocumentIDs)
                     \/ (IF kc.a.in.TopK = 0 THEN DefaultTopK ELSE kc.a.in.TopK)
                          # (IF kc.b.in.TopK = 0 THEN DefaultTopK ELSE kc.b.in.TopK)))
        => kc.a.key # kc.b.key

\* two requests that differ in top_k alone have different keys
C18_Witness ==
    /\ TwoRequests /\ kc.a.key # kc.b.key
    /\ kc.a.in.Question = kc.b.in.Question
    /\ kc.a.in.DocumentIDs = kc.b.in.DocumentIDs
    /\ kc.a.in.TopK = 0 /\ kc.b.in.TopK = 1

(* ------------------------- properties of the cache ---------------------- *)
\* GetQueryResult(key) on the cache as it stands finds nothing and does not fail
Misses(b, store, key) ==
    LET r == CacheGet(b, store, key, TRUE)
    IN  r.entry = NoEntry /\ ~r.err

\* client c returns from InvalidateDocument in this step
InvalidateReturns(c) ==
    /\ api'[c] # api[c]
    /\ api'[c].pc = "idle"
    /\ api'[c].last.op = "Invalidate"

\* C19: when InvalidateDocument(d) returns without error and no other cache
\* write went through while it ran, GetQueryResult misses for every key that
\* was stored when the call began, whatever documents the key's query named.
C19_InvalidateEmptiesCache ==
    [][\A c \in Clients :
          (InvalidateReturns(c) /\ ~api'[c].last.err /\ ~api[c].wrote)
              => \A key \in api'[c].last.before : Misses(backend', redis', key)]_vars

\* an invalidation of IdB returned without error on Redis, and the entry of
\* the query that named IdA alone was stored before it and is gone
C19_Witness ==
    \E c \in Clients : \E key \in CacheKeys :
        /\ backend = "redis"
        /\ api[c].last.op = "Invalidate" /\ ~api[c].last.err
        /\ api[c].last.doc = IdB
        /\ DocsOfKey(key) = {IdA}
        /\ key \in api[c].last.before
        /\ key \in everSet
        /\ key \notin DOMAIN redis

\* C20: with the no-op cache in use every call returns no error, and every
\* GetQueryResult returns a miss, whatever calls came before.
C20_NoOpAlwaysMisses ==
    backend = "noop" =>
        /\ redis = <<>>
        /\ \A c \in Clients :
              /\ ~api[c].last.err
              /\ api[c].last.op = "Get" => api[c].last.entry = NoEntry

\* a GetQueryResult on the no-op cache for a key that SetQueryResult accepted
\* before, next to a client whose last call was another operation
C20_Witness ==
    /\ backend = "noop"
    /\ \E c \in Clients :
          /\ api[c].last.op = "Get"
          /\ api[c].last.key \in everSet
    /\ \E c \in Clients : api[c].last.op \in {"Invalidate", "Close"}

(* ----------------------- properties of queryHandler -------------------- *)
\* the cache lookup of run r returned an entry
LookupHit(r) == qr[r].found # NoEntry
\* the names of the calls run r has made, in order
Ops(r) == [i \in 1..Len(qr[r].calls) |-> qr[r].calls[i].op]
\* run r went on into the normal flow after its cache lookup
WentOn(r) == qr[r].pc = "embed" \/ (Len(qr[r].calls) >= 2 /\ qr[r].calls[2].op = "Embed")
\* run r answered from the entry its lookup returned, calling nothing else
ServedFromCache(r) ==
    /\ qr[r].pc = "done"
    /\ Ops(r) = <<"GetQueryResult">>
    /\ qr[r].resp.status = StatusOK
    /\ qr[r].resp.cached
    /\ qr[r].resp.answer = qr[r].found.Answer
    /\ qr[r].resp.confidence = qr[r].found.Confidence
    /\ MarshalSources(qr[r].resp.sources) = qr[r].found.Sources

CallsOf(r, op) == {i \in 1..Len(qr[r].calls) : qr[r].calls[i].op = op}
Erred(r, op) == \E i \in CallsOf(r, op) : qr[r].calls[i].err
Succeeded(r, op) == \E i \in CallsOf(r, op) : ~qr[r].calls[i].err

\* C15: a failed cache read is treated as a miss and a failed cache write is
\* ignored: a run whose embedding, search and generation succeeded answers
\* 200 with the fresh answer and cached=false whatever the cache calls returned.
C15_CacheFailuresNeverFailQuery ==
    \A r \in QueryIDs :
        /\ Erred(r, "GetQueryResult") => WentOn(r)
        /\ (qr[r].pc = "done" /\ Succeeded(r, "Answer")) =>
              /\ Succeeded(r, "Embed") /\ Succeeded(r, "TopK")
              /\ qr[r].resp = FreshResponse(qr[r].out, BuildSources(qr[r].results))
              /\ qr[r].out \in LLMOutputs

\* a run whose cache read and cache write both failed on Redis and that
\* answered 200 with the generated answer
C15_Witness ==
    \E r \in QueryIDs :
        /\ backend = "redis"
        /\ qr[r].pc = "done"
        /\ Erred(r, "GetQueryResult") /\ Erred(r, "SetQueryResult")
        /\ qr[r].resp.status = StatusOK /\ ~qr[r].resp.cached
        /\ qr[r].resp.answer = qr[r].out.answer /\ qr[r].out \in LLMOutputs

NormalFlow == <<"GetQueryResult", "Embed", "TopK", "Answer", "SetQueryResult">>

\* C16: after a miss the calls are embed, search, generation, cache write in
\* that order; when embedding, search or generation fails the run answers 500
\* at once, makes no later call and writes nothing to the cache.
C16_OrderedAndFailFast ==
    \A r \in QueryIDs :
        /\ Len(qr[r].calls) <= Len(NormalFlow)
        /\ Ops(r) = SubSeq(NormalFlow, 1, Len(qr[r].calls))
        /\ (qr[r].pc = "done" /\ qr[r].resp.status = StatusOK /\ ~qr[r].resp.cached)
              => Ops(r) = NormalFlow
        /\ \A i \in 1..Len(qr[r].calls) :
              (qr[r].calls[i].err /\ qr[r].calls[i].op \in {"Embed", "TopK", "Answer"})
                  => /\ i = Len(qr[r].calls)
                     /\ qr[r].pc = "done"
                     /\ qr[r].resp = Fail(StatusInternalServerError)

\* a run that missed, embedded and searched, failed in generation and answered
\* 500 with nothing under its key
C16_Witness ==
    \E r \in QueryIDs :
        /\ Ops(r) = SubSeq(NormalFlow, 1, 4)
        /\ Erred(r, "Answer")
        /\ qr[r].resp = Fail(StatusInternalServerError)
        /\ qr[r].key \notin DOMAIN redis
        /\ backend = "redis"

(* ------------------------ properties of ChunkText ----------------------- *)
\* the call has returned
ChunkReturned == ck.pc = "done"
\* the options as passed are in the range 1 <= max_tokens, 0 <= overlap < max_tokens
PlainOptions == ck.MaxTokens >= 1 /\ ck.Overlap >= 0 /\ ck.Overlap < ck.MaxTokens
\* the tokens of the text, and of a chunk
N == Len(Fields(ck.text))
Tokens(c) == Fields(c.Text)

\* the first (max_tokens - overlap) tokens of each chunk but the last, then
\* the whole last chunk
RECURSIVE Reconstruct(_, _)
Reconstruct(cs, keep) ==
    IF cs = <<>> THEN <<>>
    ELSE IF Len(cs) = 1 THEN Tokens(cs[1])
    ELSE SubSeq(Tokens(cs[1]), 1, keep) \o Reconstruct(Tail(cs), keep)

\* C21: for a text of at least one token, max_tokens >= 1 and
\* 0 <= overlap < max_tokens, dropping the overlapping tail of every chunk but
\* the last and concatenating gives back the token sequence of the text.
C21_ReconstructionIsOriginal ==
    (ChunkReturned /\ PlainOptions /\ N >= 1) =>
        Reconstruct(ck.chunks, ck.MaxTokens - ck.Overlap) = Fields(ck.text)

\* a text cut into three chunks or more with an overlap
C21_Witness ==
    /\ ChunkReturned /\ PlainOptions
    /\ ck.Overlap >= 1
    /\ Len(ck.chunks) >= 3
    /\ Reconstruct(ck.chunks, ck.MaxTokens - ck.Overlap) = Fields(ck.text)

Ceil(a, b) == (a + b - 1) \div b

\* C22: with max_tokens >= 1 and 0 <= overlap < max_tokens a text of N tokens
\* gives ceil((N - overlap) / (max_tokens - overlap)) chunks when
\* N > max_tokens, one chunk when 1 <= N <= max_tokens, none when N = 0.
C22_ChunkCount ==
    (ChunkReturned /\ PlainOptions) =>
        Len(ck.chunks) =
            IF N = 0 THEN 0
            ELSE IF N <= ck.MaxTokens THEN 1
            ELSE Ceil(N - ck.Overlap, ck.MaxTokens - ck.Overlap)

\* more tokens than a window, an overlap, and a last window that is not full
C22_Witness ==
    /\ ChunkReturned /\ PlainOptions
    /\ N > ck.MaxTokens /\ ck.Overlap >= 1
    /\ (N - ck.Overlap) % (ck.MaxTokens - ck.Overlap) # 0
    /\ Len(ck.chunks) = Ceil(N - ck.Overlap, ck.MaxTokens - ck.Overlap)
    /\ Len(ck.chunks) >= 2

\* C23: ChunkText returns for every input: max_tokens <= 0 counts as 400, a
\* negative overlap as 0, the stride is max_tokens - overlap or, when that is
\* not positive, max_tokens, so it is at least 1; every pass of the loop moves
\* the window start forward and the loop ends within one pass per token.
C23_ChunkTextTerminates ==
    /\ [](ck.pc # "idle" =>
            /\ ck.opts.MaxTokens = (IF ck.MaxTokens <= 0 THEN 400 ELSE ck.MaxTokens)
            /\ ck.opts.Overlap = (IF ck.Overlap < 0 THEN 0 ELSE ck.Overlap))
    /\ [](ck.pc = "loop" =>
            /\ ck.step >= 1
            /\ ck.opts.Overlap >= ck.opts.MaxTokens => ck.step = ck.opts.MaxTokens
            /\ ck.start < Len(ck.words)
            /\ Len(ck.chunks) <= Len(ck.words))
    /\ [][ck.pc = "loop" => (ck'.pc = "done" \/ ck'.start > ck.start)]_ck
    /\ (ck.pc = "loop") ~> (ck.pc = "done")

\* a call with overlap >= max_tokens that returned several chunks
C23_Witness ==
    /\ ChunkReturned
    /\ ck.MaxTokens >= 1 /\ ck.Overlap >= ck.MaxTokens
    /\ Len(ck.chunks) >= 3

\* what C24 says apart from the remark on identical chunks
ChunkShape ==
    LET cs == ck.chunks
        mt == ck.opts.MaxTokens
        ov == ck.opts.Overlap
    IN  /\ \A i \in 1..Len(cs) :
              /\ cs[i].Index = i - 1
              /\ cs[i].TokenCount = Len(Tokens(cs[i]))
              /\ cs[i].TokenCount >= 1 /\ cs[i].TokenCount <= mt
              /\ i < Len(cs) => cs[i].TokenCount = mt
        /\ ov < mt =>
              \A i \in 1..(Len(cs) - 1) :
                  /\ Len(Tokens(cs[i + 1])) > ov
                  /\ SubSeq(Tokens(cs[i + 1]), 1, ov)
                        = SubSeq(Tokens(cs[i]), mt - ov + 1, mt)

\* C24 as stated: the shape above, and no two adjacent chunks are identical.
C24_AsStated ==
    ChunkReturned =>
        /\ ChunkShape
        /\ ck.opts.Overlap < ck.opts.MaxTokens =>
              \A i \in 1..(Len(ck.chunks) - 1) : ck.chunks[i].Text # ck.chunks[i + 1].Text

\* the window of tokens chunk i was cut from, by position in the text
WindowStart(i) == (i - 1) * ck.step

\* C24: Index values are 0..k-1 in order; TokenCount is the chunk's number of
\* tokens, between 1 and max_tokens; every chunk but the last has max_tokens
\* tokens; with overlap < max_tokens each later chunk begins with the last
\* overlap tokens of its predecessor and has a token beyond them, so adjacent
\* chunks start at different tokens (their texts may still be equal).
C24_IndexCountAndOverlap ==
    ChunkReturned =>
        /\ ChunkShape
        /\ \A i \in 1..Len(ck.chunks) :
              Tokens(ck.chunks[i]) =
                  SubSeq(Fields(ck.text), WindowStart(i) + 1,
                         WindowStart(i) + ck.chunks[i].TokenCount)
        /\ \A i \in 1..(Len(ck.chunks) - 1) : WindowStart(i) < WindowStart(i + 1)

\* chunks with an overlap, the last one shorter than max_tokens
C24_Witness ==
    /\ ChunkReturned
    /\ ck.opts.Overlap >= 1 /\ ck.opts.Overlap < ck.opts.MaxTokens
    /\ Len(ck.chunks) >= 2
    /\ ck.chunks[Len(ck.chunks)].TokenCount < ck.opts.MaxTokens
    /\ ChunkShape

(* ------------------------- properties of truncate ----------------------- *)
\* p is a prefix of str that stops where a word stops: str goes on with a space
EndsAtSpaceBoundary(p, str) ==
    /\ Len(p) < Len(str)
    /\ p = SubSeq(str, 1, Len(p))
    /\ str[Len(p) + 1] = Space

\* C25 as stated: truncate(s, 150) returns s when s has at most 150
\* characters, and otherwise a prefix of s that ends at a space boundary
\* followed by "...", of at most 150 + 3 characters: no word is split.
C25_AsStated ==
    pf.fn = "truncate" =>
        IF Len(pf.s) <= PreviewLen THEN pf.out = pf.s
        ELSE /\ Len(pf.out) <= PreviewLen + Len(Ellipsis)
             /\ Len(pf.out) >= Len(Ellipsis)
             /\ SubSeq(pf.out, Len(pf.out) - Len(Ellipsis) + 1, Len(pf.out)) = Ellipsis
             /\ EndsAtSpaceBoundary(SubSeq(pf.out, 1, Len(pf.out) - Len(Ellipsis)), pf.s)

IsBaseTimesPow2(n) == Representable(pf.m, pf.p + n) /\ pf.delays[n] = Dur(pf.m, pf.p + n)
\* the delays grow strictly from attempt 0 to attempt 4
Increasing == \A n \in 0..3 : Less(pf.delays[n], pf.delays[n + 1])

\* C27 as stated: for every base > 0 the delay of attempt n is base * 2^n for
\* n = 0..4, and the delays are strictly increasing over that range.
C27_AsStated ==
    pf.fn = "ExponentialBackoff" =>
        /\ \A n \in 0..4 : IsBaseTimesPow2(n)
        /\ Increasing

\* C27: for a base > 0 with base * 16 within int64 the delay of attempt n is
\* base * 2^n for n = 0..4 and the delays are strictly increasing; where the
\* numbers are small the result is the plain product base * 2^n.
C27_BackoffDoublesWithinInt64 ==
    pf.fn = "ExponentialBackoff" =>
        /\ \A n \in 0..4 : Representable(pf.m, pf.p + n) => IsBaseTimesPow2(n)
        /\ Representable(pf.m, pf.p + 4) => Increasing
        /\ \A n \in 0..4 :
              (pf.m < 4 /\ pf.p + n < 20) =>
                  ToInt(pf.delays[n]) = ExponentialBackoff(n, pf.m * Pow2(pf.p))

\* base one second: 1 s, 2 s, 4 s, 8 s, 16 s
C27_Witness ==
    /\ pf.fn = "ExponentialBackoff"
    /\ pf.m = 1953125 /\ pf.p = 9
    /\ \A n \in 0..4 : IsBaseTimesPow2(n)
    /\ Increasing

\* ---------------------------------------------------------------------------
\* Worker: subscription, cancellation and return

\* a step in which a call of Worker returns after having subscribed
WorkerReturnStep(w) == wl[w].pc = "waiting" /\ wl'[w].pc = "returned"
\* a step in which the subscription callback of w is handed a message
Handed(w) == wk[w].pc = "idle" /\ wk'[w].pc # "idle"
\* the call of Worker has returned because its context was cancelled
ReturnedOnCancel(w) == wl[w].pc = "returned" /\ wl[w].cancelled

\* C28: a call of Worker that has subscribed returns only when its context is
\* cancelled; once the context is cancelled the call unsubscribes and returns;
\* and a worker whose call has returned is handed no message. A call whose
\* QueueSubscribe fails returns at once with the error.
C28_WorkerBlocksUntilCancelled ==
    /\ [][\A w \in Workers : WorkerReturnStep(w) => wl[w].cancelled]_vars
    /\ [][\A w \in Workers : Handed(w) => Subscribed(wl[w])]_vars
    /\ [](\A w \in Workers : wl[w].pc = "returned" =>
                                  wl[w].cancelled \/ wl[w].err)
    /\ \A w \in Workers :
          (Subscribed(wl[w]) /\ wl[w].cancelled) ~> (wl[w].pc = "returned")
\* a call has returned on cancellation while a message of its type is waiting
C28_Witness ==
    \E w \in Workers :
        /\ ReturnedOnCancel(w)
        /\ \E m \in BagToSet(topic) : m.Type = w[1]

\* ---------------------------------------------------------------------------
\* queue groups: several workers of one task type

\* the workers whose callback holds a copy of task id
Holders(id) == {w \in Pool : \E t \in Held(w) : t.ID = id}
\* the published, undelivered copies of task id
Waiting(id) == {m \in BagToSet(topic) : m.ID = id}
\* the handler has been called once for each earlier publication of the task
\* and at most once for this one
CalledOncePerCopy(t) == hist[t.ID].calls \in {t.Attempts, t.Attempts + 1}

DocumentedMaxAttempts == 3

\* C30 as stated: the handler of a task is never called more than 3 times.
C30_AsStated ==
    \A id \in DOMAIN hist : hist[id].calls <= DocumentedMaxAttempts

\* ---------------------------------------------------------------------------
\* handleParse and handleAnalyze: the effects of one run

\* the pcs of a worker inside its handler
InParse == {"SaveChunks", "Enqueue", "EnqueueWait"}
InAnalyze == {"ListChunks", "Summarize", "SaveSummary", "GetDocument",
              "EmbedBatch", "SaveEmbeddings", "UpdateStatus"}
\* the document of the task worker w holds
DocOf(w) == wk[w].task.Payload.document_id
\* the step in which handleParse returns nil
ParseSucceeds(w) ==
    /\ wk[w].pc = "Enqueue"
    /\ wk'[w].pc = "idle"
    /\ hist'[wk[w].task.ID].fate = "done"
\* the analyze tasks for document d that were ever published
AnalyzeTasksOf(h, d) ==
    {id \in DOMAIN h : h[id].Type = TaskTypeAnalyze /\ h[id].Document = d}
\* the messages a step publishes
Published == BagToSet(topic') \ BagToSet(topic)

\* C31: a run of handleParse that returns nil has written the chunks and
\* nothing else to the store, publishes in its last step one analyze task with
\* the document id of the parse task and the ids of rows that are in the table,
\* and leaves the document status alone: it is processing while the handler
\* runs and when it returns.
C31_ParseSavesThenEnqueuesOnce ==
    /\ [][\A w \in ParseWorkers : ParseSucceeds(w) =>
            /\ wk[w].log = <<"SaveChunks">>
            /\ \E m \in Published :
                  /\ Published = {m}
                  /\ m.Type = TaskTypeAnalyze
                  /\ m.Payload.document_id = DocOf(w)
                  /\ m.Payload.chunk_ids \subseteq {c.id : c \in chunks}
                  /\ AnalyzeTasksOf(hist', DocOf(w)) = {m.ID}
            /\ status[DocOf(w)] = StatusProcessing
            /\ status' = status]_vars
    /\ [](\A w \in ParseWorkers :
            wk[w].pc \in InParse => status[DocOf(w)] = StatusProcessing)
    /\ [][\A w \in ParseWorkers :
            wk[w].pc \in InParse => status' = status]_vars
\* handleParse has returned nil for a document with chunks: its analyze task
\* is published, its rows are in the table and the status is processing
C31_Witness ==
    \E id \in DOMAIN hist :
        /\ hist[id].Type = TaskTypeParse /\ hist[id].fate = "done"
        /\ \E m \in BagToSet(topic) :
              m.Type = TaskTypeAnalyze /\ m.Payload.chunk_ids # {}
        /\ status[hist[id].Document] = StatusProcessing

\* the service a step of handleAnalyze calls
StepService(pc) ==
    CASE pc = "Summarize" -> "llm"
      [] pc = "EmbedBatch" -> "embedder"
      [] OTHER -> "store"
\* the steps of handleAnalyze before the status update
StepsBeforeUpdate == InAnalyze \ {"UpdateStatus"}
\* a step of handleAnalyze whose call fails
AnalyzeStepFails(w) ==
    /\ wk[w].pc \in StepsBeforeUpdate
    /\ ~Up(StepService(wk[w].pc))
    /\ wk'[w] # wk[w]

\* C32: when a call of handleAnalyze fails (ListChunks, Summarize, SaveSummary,
\* GetDocument, EmbedBatch or SaveEmbeddings), the handler returns the error to
\* the queue in that step, which writes nothing: no later step runs, the
\* status is not written and is still processing; the summary written by an
\* earlier SaveSummary of the run stays in the table.
C32_AnalyzeFailureStopsTheRun ==
    [][\A w \in AnalyzeWorkers : AnalyzeStepFails(w) =>
          /\ wk'[w].pc = "retry"
          /\ wk'[w].log = wk[w].log
          /\ UNCHANGED <<status, chunks, nextChunk, summaries, topic>>
          /\ wk[w].pc # "SaveEmbeddings" => embeddings' = embeddings
          /\ status[DocOf(w)] = StatusProcessing
          /\ wk[w].pc \in {"GetDocument", "EmbedBatch", "SaveEmbeddings"} =>
                /\ wk[w].log = <<"SaveSummary">>
                /\ DocOf(w) \in summaries']_vars
\* handleAnalyze has returned an error after SaveSummary: the summary is in the
\* table, no embedding is, and the status is processing
C32_Witness ==
    \E w \in AnalyzeWorkers :
        /\ wk[w].pc = "retry"
        /\ wk[w].log = <<"SaveSummary">>
        /\ DocOf(w) \in summaries
        /\ wk[w].listed # {} /\ wk[w].listed \cap embeddings = {}
        /\ status[DocOf(w)] = StatusProcessing

\* a step of handleParse in which SaveChunks fails
SaveChunksFails(w) ==
    wk[w].pc = "SaveChunks" /\ ~Up("store") /\ wk'[w] # wk[w]
\* the step in which handleParse is called with a malformed document id
CalledWithMalformedID(w) ==
    wk[w].pc = "handler" /\ DocOf(w) = MalformedID /\ wk'[w] # wk[w]
\* the analyze tasks among the messages a step publishes
PublishedAnalyze == {m \in Published : m.Type = TaskTypeAnalyze}

\* C33: an analyze task is published only by a run of handleParse that has
\* saved the chunks of the same document, and it names rows that are in the
\* table; a run whose SaveChunks fails returns the error without publishing;
\* a run with a malformed document id returns the error without a call of
\* SaveChunks or Enqueue.
C33_AnalyzeOnlyAfterChunksSaved ==
    /\ [][\A m \in PublishedAnalyze :
            \E w \in ParseWorkers :
                /\ wk[w].pc = "Enqueue" /\ wk[w].log = <<"SaveChunks">>
                /\ m.Payload.document_id = DocOf(w)
                /\ m.Payload.chunk_ids \subseteq
                      {c.id : c \in ListChunks(chunks, DocOf(w))}]_vars
    /\ [][\A w \in ParseWorkers : SaveChunksFails(w) =>
            /\ wk'[w].pc = "retry"
            /\ UNCHANGED <<storeVars, topic>>]_vars
    /\ [][\A w \in ParseWorkers : CalledWithMalformedID(w) =>
            /\ wk'[w].pc = "retry"
            /\ UNCHANGED <<storeVars, topic>>]_vars
    /\ [](\A w \in ParseWorkers :
            wk[w].pc \in InParse => DocOf(w) # MalformedID)
    /\ [](\A id \in DOMAIN hist :
            hist[id].Type = TaskTypeAnalyze => hist[id].Document # MalformedID)
\* a task with a malformed document id has had all its handler calls and is
\* dropped, and a run of handleParse has failed in SaveChunks: no chunk row
\* and no analyze task exist
C33_Witness ==
    /\ \E id \in DOMAIN hist :
          hist[id].Document = MalformedID /\ hist[id].fate = "dead"
    /\ \E w \in ParseWorkers :
          wk[w].pc = "retry" /\ DocOf(w) # MalformedID /\ wk[w].log = <<>>
    /\ chunks = {}
    /\ \A id \in DOMAIN hist : hist[id].Type = TaskTypeParse

\* ---------------------------------------------------------------------------
\* uploadHandler: what an upload creates and publishes

\* the upload names a type other than plain text and PDF, or names none and
\* has a file name that ends in neither .txt nor .pdf (in any case)
UnsupportedType(q) ==
    IF q.contentType = "" THEN q.ext \notin {".txt", ".TXT", ".pdf"}
    ELSE q.contentType \notin {"text/plain", "application/pdf"}
\* the upload is rejected before the document is created
RejectedUpload(q) ==
    \/ q.contentLength > MaxUploadSize \/ q.size > MaxUploadSize
    \/ ~q.file
    \/ UnsupportedType(q)

\* C34: an upload that is too large, has no file or has an unsupported type is
\* answered 400 and creates no document and publishes no task; an upload whose
\* CreateDocument fails (answered 500 with no document) publishes no task; a
\* task is published only for a document that exists; and an accepted upload
\* is answered 202 with the id of its document and status processing, the
\* document exists with status processing and one parse task, no other task,
\* was published for it.
C34_UploadCreatesOneDocumentOneTask ==
    \A r \in Requests :
        /\ up[r].pc # "new" /\ RejectedUpload(up[r].req) =>
              /\ up[r].resp.code = StatusBadRequest
              /\ status[r] = NoDocument /\ TasksOf(r) = {}
        /\ status[r] = NoDocument => TasksOf(r) = {}
        /\ up[r].pc = "accepted" =>
              /\ up[r].resp = UploadReply(StatusAccepted, r, StatusProcessing)
              /\ status[r] = StatusProcessing
              /\ Cardinality(TasksOf(r)) = 1
              /\ \A id \in TasksOf(r) : hist[id].Type = TaskTypeParse
              /\ \E m \in BagToSet(topic) :
                    /\ m.Payload.document_id = r /\ CopiesIn(m, topic) = 1
                    /\ BagToSet(topic) = {m}
\* an upload of a PDF, known by its file name alone, was accepted after a
\* failed publish
C34_Witness ==
    \E r \in Requests :
        /\ up[r].pc = "accepted" /\ up[r].attempt > 0
        /\ up[r].req.contentType = "" /\ up[r].req.ext = ".pdf"

\* ---------------------------------------------------------------------------
\* a document with no tokens

\* the upload of document d had no token
EmptyDocument(d) == up[d].pc # "new" /\ up[d].req.tokens = 0
\* the service a step of handleParse calls
ParseStepService(pc) == IF pc = "SaveChunks" THEN "store" ELSE "queue"
\* worker w takes a handler step while the service the step calls is up
StepWithServiceUp(w) ==
    /\ wk'[w] # wk[w]
    /\ \/ wk[w].pc \in {"SaveChunks", "Enqueue"} /\ Up(ParseStepService(wk[w].pc))
       \/ wk[w].pc \in InAnalyze /\ Up(StepService(wk[w].pc))

\* C35: for a document without tokens no handler step fails while the service
\* it calls is up: handleParse saves no chunk row and publishes the analyze
\* task, with no chunk id; handleAnalyze lists no chunk, summarizes, saves the
\* summary, saves no embedding and sets the status ready. A ready document
\* without tokens has a summary, no chunk row, and its two tasks are done.
C35_EmptyDocumentGoesThrough ==
    /\ [][\A w \in Workers :
            (wk[w].pc \in InParse \cup InAnalyze /\ EmptyDocument(DocOf(w))
             /\ StepWithServiceUp(w)) =>
                /\ wk'[w].pc # "retry"
                /\ UNCHANGED <<chunks, nextChunk, embeddings>>
                /\ wk[w].pc = "Enqueue" =>
                      \E m \in PublishedAnalyze :
                          /\ m.Payload.document_id = DocOf(w)
                          /\ m.Payload.chunk_ids = {}
                /\ wk[w].pc = "ListChunks" => wk'[w].listed = {}
                /\ wk[w].pc = "SaveSummary" => DocOf(w) \in summaries'
                /\ wk[w].pc = "SaveEmbeddings" =>
                      wk'[w].log = <<"SaveSummary", "SaveEmbeddings">>
                /\ wk[w].pc = "UpdateStatus" =>
                      status'[DocOf(w)] = StatusReady]_vars
    /\ [](\A d \in Requests :
            (EmptyDocument(d) /\ status[d] = StatusReady) =>
                /\ d \in summaries
                /\ ListChunks(chunks, d) = {}
                /\ Cardinality(TasksOf(d)) = 2
                /\ \A id \in TasksOf(d) : hist[id].fate = "done")
\* a document without tokens is ready
C35_Witness ==
    \E d \in Requests :
        /\ EmptyDocument(d) /\ status[d] = StatusReady
        /\ d \in summaries /\ chunks = {} /\ embeddings = {}

\* ---------------------------------------------------------------------------
\* the cache and the tables

\* the step in which the handler answers request r from the cache
ServedFromCacheStep(r) ==
    qr'[r] # qr[r] /\ qr'[r].pc = "done" /\ qr'[r].resp.cached

\* C36 as stated: a response served from the cache names the sources the
\* normal flow, which is what the handler does with the no-op cache, would
\* find in the tables at that moment.
C36_AsStated ==
    [][\A r \in QueryIDs : ServedFromCacheStep(r) =>
          qr'[r].resp.sources = BuildSources(Found(qr'[r].body.req))]_vars

\* ---------------------------------------------------------------------------
\* the wait for not_before and the other messages

\* the published messages of worker w's type that are due
DueFor(w) == {m \in BagToSet(topic) : Matches(m, w) /\ ~NotYetDue(m, now)}
\* some subscribed worker of w's type is free to be handed a message
SomeoneFree(w) ==
    \E v \in Workers : v[1] = w[1] /\ wk[v].pc = "idle" /\ Subscribed(wl[v])

\* C37 as stated: while a delivery of a worker waits for its not_before, a
\* published message of the same type that is due can be handed to a handler.
C37_AsStated ==
    \A w \in Workers :
        (wk[w].pc = "sleep" /\ DueFor(w) # {}) => SomeoneFree(w)

\* ---------------------------------------------------------------------------
\* cancellation while a delivery waits for its not_before

\* the delivery of w that waits for its not_before goes on to the handler
GoesOnToHandler(w) == wk[w].pc = "sleep" /\ wk'[w].pc = "handler"

\* C38 as stated: once the context of a worker is cancelled, a delivery of that
\* worker that waits for its not_before does not go on to run the handler.
C38_AsStated ==
    [][\A w \in Followed : wl[w].cancelled => ~GoesOnToHandler(w)]_vars

\* ---------------------------------------------------------------------------
\* progress of the pipeline

\* a publish has just failed (the caller waits to try again, or gives up), or a
\* task was dropped because its re-publish failed
PublishFailed ==
    \/ \E w \in Workers : wk[w].pc = "EnqueueWait"
    \/ \E r \in Requests : up[r].pc \in {"EnqueueWait", "fail"}
    \/ \E id \in DOMAIN hist : hist[id].fate = "lost"
\* the handler of some task has failed max_attempts times
Exhausted == \E id \in DOMAIN hist : hist[id].fate = "dead"

\* C39: with workers that keep running, a queue that keeps delivering and a
\* clock that goes on, in a run in which no publish fails and no task's handler
\* fails max_attempts times, every document whose upload was accepted
\* eventually has status ready.
C39_AcceptedEventuallyReady ==
    ([]~PublishFailed /\ []~Exhausted) =>
        \A r \in Requests : (up[r].pc = "accepted") ~> (status[r] = StatusReady)

\* an accepted document is ready although its parse task and its analyze task
\* have each failed at least once on the way
C39_Witness ==
    \E r \in Requests :
        /\ up[r].pc = "accepted" /\ up[r].attempt = 0
        /\ status[r] = StatusReady
        /\ \A id \in TasksOf(r) : hist[id].fate = "done" /\ hist[id].calls > 1
        /\ \E id \in TasksOf(r) : hist[id].Type = TaskTypeParse

\* ---------------------------------------------------------------------------
\* a re-publish that fails

\* retryTask runs for worker w with attempts + 1 below max_attempts while the
\* publish fails
RepublishFails(w) == RetryDue(w) /\ ~Up("queue")
\* the document of the task worker w holds, a one-element set, or none
DocumentsOf(w) == {wk[w].task.Payload.document_id} \cap Requests

\* C40: when the re-publish of retryTask fails, no copy is published and the
\* worker goes back to idle with the document's status as it was, processing;
\* a task dropped in that way has had fewer handler calls than its
\* max_attempts, no copy of it is left, and its document stays processing.
C40_DroppedWhenRepublishFails ==
    /\ [][\A w \in Workers :
            RepublishFails(w) =>
                /\ topic' = topic
                /\ wk'[w] = IdleWorker
                /\ hist'[wk[w].task.ID].fate = "lost"
                /\ status' = status
                /\ \A d \in DocumentsOf(w) : status[d] = StatusProcessing]_vars
    /\ [](\A id \in DOMAIN hist :
            hist[id].fate = "lost" =>
                /\ Copies(id) = {}
                /\ hist[id].calls < Limit(id)
                /\ status[hist[id].Document] = StatusProcessing)
    /\ [][\A id \in DOMAIN hist :
            hist[id].fate = "lost" => hist'[id] = hist[id]]_vars

\* an analyze task has been dropped after its first failed call, by a
\* re-publish that failed; its document is processing
C40_Witness ==
    \E id \in DOMAIN hist :
        /\ hist[id].Type = TaskTypeAnalyze /\ hist[id].fate = "lost"
        /\ hist[id].calls = 1 /\ Limit(id) = DefaultMaxAttempts
        /\ status[hist[id].Document] = StatusProcessing

====
